---------------------------- MODULE Spec2Model ----------------------------
(***************************************************************************)
(* Model of the recurrence engine and the series lifecycle of             *)
(* streamline-mcp (src/src/index.ts).                                      *)
(*                                                                         *)
(* A point in time (a JS Date) is an integer number of ticks since         *)
(* 1970-01-01 00:00 local time: TicksPerDay ticks make one day, tick 0 of  *)
(* a day is local midnight.  Local time has no daylight-saving shifts.     *)
(* All instants read from the clock inside one tool call are the same      *)
(* tick.                                                                   *)
(***************************************************************************)
EXTENDS Integers, Sequences, FiniteSets, TLC

(***************************************************************************)
(* Bounds of the model.                                                    *)
(***************************************************************************)
TicksPerDay == 2

(***************************************************************************)
(* Values of the program.                                                  *)
(***************************************************************************)
\* null, as returned by nextOccurrenceDate and stored in nullable columns
Null == -1
\* an optional numeric field of RecurrenceRule that is undefined (falsy)
Absent == 0
\* the tick of the day parseDate normalises to (setHours(12, 0, 0, 0))
NoonTick == 1
\* findNextValidDate's maxIterations
maxIterations == 1000

(***************************************************************************)
(* The JS Date operations the engine uses, on local civil dates.           *)
(***************************************************************************)
DayOf(t) == t \div TicksPerDay
TimeOf(t) == t % TicksPerDay
MakeDate(day, tod) == day * TicksPerDay + tod

\* days since 1970-01-01 of the civil date y-m-d (m in 1..12, d >= 1);
\* the year runs from March so that a leap day ends it
DaysFromYearOfEra(era, yoe, doy) ==
    era * 146097 + (yoe * 365 + yoe \div 4 - yoe \div 100 + doy) - 719468
DaysFromMarchYear(yy, mp, d) ==
    DaysFromYearOfEra(yy \div 400, yy % 400, (153 * mp + 2) \div 5 + d - 1)
DaysFromCivil(y, m, d) ==
    DaysFromMarchYear(IF m <= 2 THEN y - 1 ELSE y, IF m > 2 THEN m - 3 ELSE m + 9, d)

\* the civil date [y, m, d] of a day number
CivilFromMonthPart(era, yoe, doy, mp) ==
    [y |-> yoe + era * 400 + (IF mp < 10 THEN 0 ELSE 1),
     m |-> IF mp < 10 THEN mp + 3 ELSE mp - 9,
     d |-> doy - (153 * mp + 2) \div 5 + 1]
CivilFromDayOfYear(era, yoe, doy) ==
    CivilFromMonthPart(era, yoe, doy, (5 * doy + 2) \div 153)
CivilFromYearOfEra(era, doe, yoe) ==
    CivilFromDayOfYear(era, yoe, doe - (365 * yoe + yoe \div 4 - yoe \div 100))
CivilFromDayOfEra(era, doe) ==
    CivilFromYearOfEra(era, doe,
        (doe - doe \div 1460 + doe \div 36524 - doe \div 146096) \div 365)
CivilFromDays(z) ==
    CivilFromDayOfEra((z + 719468) \div 146097, (z + 719468) % 146097)

\* Date.getFullYear, Date.getMonth (0-based), Date.getDate
GetFullYear(t) == CivilFromDays(DayOf(t)).y
GetMonth(t) == CivilFromDays(DayOf(t)).m - 1
GetDate(t) == CivilFromDays(DayOf(t)).d
\* Date.getDay: 0 = Sunday .. 6 = Saturday (1970-01-01 was a Thursday)
GetDay(t) == (DayOf(t) + 4) % 7

\* new Date(year, month, day): month 0-based and possibly outside 0..11,
\* day possibly outside the month (both overflow), local midnight
NewDateYMD(year, month, day) ==
    MakeDate(DaysFromCivil(year + month \div 12, (month % 12) + 1, 1) + day - 1, 0)

\* Date.setDate(n): day n of the date's month, overflowing, time kept
SetDate(t, n) ==
    MakeDate(DaysFromCivil(GetFullYear(t), GetMonth(t) + 1, 1) + n - 1, TimeOf(t))

\* Date.setMonth(month): month 0-based, overflowing into later years; the
\* day of the month is kept and overflows into the following month
SetMonth(t, month) ==
    MakeDate(DaysFromCivil(GetFullYear(t) + month \div 12, (month % 12) + 1, 1)
                 + GetDate(t) - 1,
             TimeOf(t))

\* Date.setFullYear(year): month and day kept, 29 February overflows
SetFullYear(t, year) ==
    MakeDate(DaysFromCivil(year, GetMonth(t) + 1, 1) + GetDate(t) - 1, TimeOf(t))

\* new Date(result.getFullYear(), result.getMonth() + 1, 0).getDate()
DaysInMonthOf(t) == GetDate(NewDateYMD(GetFullYear(t), GetMonth(t) + 1, 0))

Min(a, b) == IF a <= b THEN a ELSE b
SetMin(S) == CHOOSE x \in S : \A y \in S : x <= y

(***************************************************************************)
(* RecurrenceEngine                                                        *)
(***************************************************************************)
\* mutant: an afterOccurrences series ends one occurrence late
hasEnded_countExceeded(rule, referenceDate) ==
    CASE rule.endCondition.type = "afterOccurrences" ->
            rule.occurrencesGenerated > rule.endCondition.count
      [] rule.endCondition.type = "onDate" ->
            rule.endCondition.date # Absent /\ referenceDate > rule.endCondition.date
      [] OTHER -> FALSE

\* mutant: the occurrence count is compared whatever the end condition is
hasEnded_anyType(rule, referenceDate) ==
    CASE rule.endCondition.type = "onDate" ->
            rule.endCondition.date # Absent /\ referenceDate > rule.endCondition.date
      [] OTHER -> rule.occurrencesGenerated >= rule.endCondition.count

\* mutant: a reference date equal to the end date counts as ended
hasEnded_onDateInclusive(rule, referenceDate) ==
    CASE rule.endCondition.type = "afterOccurrences" ->
            rule.occurrencesGenerated >= rule.endCondition.count
      [] rule.endCondition.type = "onDate" ->
            rule.endCondition.date # Absent /\ referenceDate >= rule.endCondition.date
      [] OTHER -> FALSE

\* hasEnded(rule, referenceDate)
hasEnded(rule, referenceDate) ==
    CASE rule.endCondition.type = "never" -> FALSE
      [] rule.endCondition.type = "afterOccurrences" ->
            rule.occurrencesGenerated >= rule.endCondition.count
      [] rule.endCondition.type = "onDate" ->
            IF rule.endCondition.date # Absent
            THEN referenceDate > rule.endCondition.date
            ELSE FALSE
      [] OTHER -> FALSE

\* result.setDate(result.getDate() + days)
AddDays(date, days) == SetDate(date, GetDate(date) + days)

\* a variant that counts the anchor's day as the first of the interval
nextDailyOccurrence_fromAnchorDay(date, interval) == AddDays(date, interval - 1)

nextDailyOccurrence(date, interval) == AddDays(date, interval)

\* the weekdays of the set that come later in the week than currentWeekday
\* mutant: the anchor's own weekday counts as later in the week
laterWeekdays_inclusive(weekdays, currentWeekday) ==
    {w \in weekdays : w >= currentWeekday}

laterWeekdays(weekdays, currentWeekday) == {w \in weekdays : w > currentWeekday}

\* mutant: the date interval weeks ahead is returned as it is
nextWeeklyOccurrence_jump_unmoved(result, targetWeekday) == result

\* the date interval weeks ahead, moved to targetWeekday within its week
nextWeeklyOccurrence_jump(result, targetWeekday) ==
    AddDays(result, targetWeekday - (GetDay(result) + 1))

nextWeeklyOccurrence(date, interval, weekdays) ==
    IF weekdays = {}
    THEN AddDays(date, interval * 7)
    ELSE IF interval = 1 /\ laterWeekdays(weekdays, GetDay(date) + 1) # {}
         THEN AddDays(date, SetMin(laterWeekdays(weekdays, GetDay(date) + 1))
                                - (GetDay(date) + 1))
         ELSE nextWeeklyOccurrence_jump(AddDays(date, interval * 7), SetMin(weekdays))

\* result.setDate(Math.min(day, daysInMonth))
nextMonthlyByDay_clamp(result, day) == SetDate(result, Min(day, DaysInMonthOf(result)))

nextMonthlyByDay(date, interval, day) ==
    nextMonthlyByDay_clamp(SetMonth(date, GetMonth(date) + interval), day)

\* while (current.getDay() + 1 !== weekday) current.setDate(current.getDate() - 1)
RECURSIVE ScanBackToWeekday(_, _)
ScanBackToWeekday(current, weekday) ==
    IF GetDay(current) + 1 # weekday
    THEN ScanBackToWeekday(AddDays(current, -1), weekday)
    ELSE current

\* while (count < ordinal) { if (match) { count++; if (count === ordinal) break }
\*                           result.setDate(result.getDate() + 1) }
RECURSIVE ScanToNthWeekday(_, _, _, _)
ScanToNthWeekday(result, count, ordinal, weekday) ==
    IF count < ordinal
    THEN IF GetDay(result) + 1 = weekday /\ count + 1 = ordinal
         THEN result
         ELSE ScanToNthWeekday(AddDays(result, 1),
                               IF GetDay(result) + 1 = weekday THEN count + 1 ELSE count,
                               ordinal, weekday)
    ELSE result

\* mutant: a fifth occurrence is searched like the last one
nextMonthlyByOrdinalWeekday_scan_fifthAsLast(result, ordinal, weekday) ==
    IF ordinal = -1 \/ ordinal = 5
    THEN ScanBackToWeekday(NewDateYMD(GetFullYear(result), GetMonth(result) + 1, 0),
                           weekday)
    ELSE ScanToNthWeekday(result, 0, ordinal, weekday)

\* the search from the first day of the target month
nextMonthlyByOrdinalWeekday_scan(result, ordinal, weekday) ==
    IF ordinal = -1
    THEN ScanBackToWeekday(NewDateYMD(GetFullYear(result), GetMonth(result) + 1, 0),
                           weekday)
    ELSE ScanToNthWeekday(result, 0, ordinal, weekday)

nextMonthlyByOrdinalWeekday(date, interval, ordinal, weekday) ==
    nextMonthlyByOrdinalWeekday_scan(
        SetDate(SetMonth(date, GetMonth(date) + interval), 1), ordinal, weekday)

nextMonthlyOccurrence(date, interval, mode, dayOfMonth, ordinalWeek, ordinalWeekday) ==
    IF mode = "dayOfMonth"
    THEN nextMonthlyByDay(date, interval,
                          IF dayOfMonth # Absent THEN dayOfMonth ELSE 1)
    ELSE nextMonthlyByOrdinalWeekday(date, interval,
                          IF ordinalWeek # Absent THEN ordinalWeek ELSE 1,
                          IF ordinalWeekday # Absent THEN ordinalWeekday ELSE 2)

\* if (day !== undefined) result.setDate(Math.min(day, daysInMonth))
nextYearlyOccurrence_day(result, day) ==
    IF day # Absent THEN SetDate(result, Min(day, DaysInMonthOf(result))) ELSE result

\* if (month !== undefined) result.setMonth(month - 1)
nextYearlyOccurrence_month(result, month, day) ==
    nextYearlyOccurrence_day(
        IF month # Absent THEN SetMonth(result, month - 1) ELSE result, day)

nextYearlyOccurrence(date, interval, month, day) ==
    nextYearlyOccurrence_month(SetFullYear(date, GetFullYear(date) + interval), month, day)

\* the switch on rule.frequency shared by nextOccurrenceDate and
\* computeRawNextDate; its two default branches differ
computeRawNextDate(rule, date) ==
    CASE rule.frequency = "daily" -> nextDailyOccurrence(date, rule.interval)
      [] rule.frequency = "weekly" ->
            nextWeeklyOccurrence(date, rule.interval, rule.weekdays)
      [] rule.frequency = "monthly" ->
            nextMonthlyOccurrence(date, rule.interval,
                IF rule.monthlyMode # "" THEN rule.monthlyMode ELSE "dayOfMonth",
                rule.dayOfMonth, rule.ordinalWeek, rule.ordinalWeekday)
      [] rule.frequency = "yearly" ->
            nextYearlyOccurrence(date, rule.interval, rule.monthOfYear, rule.dayOfMonth)
      [] OTHER -> Null

RECURSIVE findNextValidDateLoop(_, _, _, _)
\* one iteration of the loop, nextDate being computeRawNextDate(rule, currentDate)
findNextValidDate_iteration(rule, startDate, nextDate, iterations) ==
    IF nextDate # Null /\ nextDate >= startDate
    THEN nextDate
    ELSE IF nextDate # Null
         THEN findNextValidDateLoop(rule, startDate, nextDate, iterations + 1)
         ELSE startDate

findNextValidDateLoop(rule, startDate, currentDate, iterations) ==
    IF iterations < maxIterations
    THEN findNextValidDate_iteration(rule, startDate,
                                     computeRawNextDate(rule, currentDate), iterations)
    ELSE startDate

findNextValidDate(rule, startDate) ==
    findNextValidDateLoop(rule, startDate, startDate, 0)

\* the candidate of nextOccurrenceDate before the catch-up and end-date checks
rawCandidate(rule, anchorDate) ==
    IF rule.frequency \in {"daily", "weekly", "monthly", "yearly"}
    THEN computeRawNextDate(rule, anchorDate)
    ELSE nextDailyOccurrence(anchorDate, rule.interval)

\* Check against end date
nextOccurrenceDate_endDate(rule, candidateDate) ==
    IF /\ rule.endCondition.type = "onDate"
       /\ rule.endCondition.date # Absent
       /\ candidateDate > rule.endCondition.date
    THEN Null
    ELSE candidateDate

\* mutant: a candidate in the past is returned as it is
nextOccurrenceDate_catchUp_none(rule, candidateDate, referenceDate) ==
    nextOccurrenceDate_endDate(rule, candidateDate)

\* For scheduled-anchor rules, if candidate is in the past, find next valid date
nextOccurrenceDate_catchUp(rule, candidateDate, referenceDate) ==
    nextOccurrenceDate_endDate(rule,
        IF rule.anchor = "scheduledDueDate" /\ candidateDate < referenceDate
        THEN findNextValidDate(rule, referenceDate)
        ELSE candidateDate)

nextOccurrenceDate(rule, anchorDate, referenceDate) ==
    IF hasEnded(rule, referenceDate)
    THEN Null
    ELSE nextOccurrenceDate_catchUp(rule, rawCandidate(rule, anchorDate), referenceDate)

(***************************************************************************)
(* The store (SupabaseClient): the rows of table tasks and of the junction *)
(* table task_tags.  Timestamp columns no handler reads (created_at,       *)
(* updated_at, completed_date, trashed_date) and recurrence_summary are    *)
(* left out.  A row inserted without is_skipped reads is_skipped = false   *)
(* (the column's default).                                                 *)
(***************************************************************************)
\* JSON.stringify(rule) / JSON.parse(recurrence_rule_data): the column holds
\* JSON text of a rule, text that does not parse, or null
NoRule ==
    [frequency |-> "", interval |-> Absent, weekdays |-> {}, monthlyMode |-> "",
     dayOfMonth |-> Absent, ordinalWeek |-> Absent, ordinalWeekday |-> Absent,
     monthOfYear |-> Absent, anchor |-> "",
     endCondition |-> [type |-> "", count |-> Absent, date |-> Absent],
     occurrencesGenerated |-> 0]
JSONStringify(rule) == [kind |-> "json", rule |-> rule]
NullData == [kind |-> "null", rule |-> NoRule]
GarbageData == [kind |-> "garbage", rule |-> NoRule]
JSONParses(data) == data.kind = "json"
JSONParse(data) == data.rule

NoTask ==
    [id |-> 0, series_id |-> 0, is_recurring_template |-> FALSE,
     recurrence_parent_id |-> 0, name |-> "", note |-> "",
     is_urgent_alarm |-> FALSE, status |-> FALSE, is_skipped |-> FALSE,
     is_deleted |-> FALSE, due_date |-> Null,
     recurrence_rule_data |-> NullData, recurrence_status |-> ""]

\* select(..., limit: n): at most n of the rows the filters match
Limit(rows, n) ==
    IF Cardinality(rows) <= n
    THEN rows
    ELSE CHOOSE T \in SUBSET rows : Cardinality(T) = n

\* the limit of createOccurrenceTask's select on task_tags
TagSelectLimit == 100

SelectTaskByID(st, uuid) == Limit({t \in st.tasks : t.id = uuid}, 1)

SelectTemplates(st, seriesID) ==
    Limit({t \in st.tasks : t.series_id = seriesID /\ t.is_recurring_template}, 1)

\* the rows hasOpenOccurrence's filters match
OpenOccurrences(rows, seriesID) ==
    {t \in rows : /\ t.series_id = seriesID
                  /\ ~t.is_recurring_template
                  /\ ~t.status
                  /\ ~t.is_skipped
                  /\ ~t.is_deleted}

hasOpenOccurrence(st, seriesID) ==
    Limit(OpenOccurrences(st.tasks, seriesID), 1) # {}

(***************************************************************************)
(* A tool call in progress is a frame: the handler's position pc (the next *)
(* store call) and its local variables.  Step executes the handler up to   *)
(* and including its next store call.                                      *)
(***************************************************************************)
NoArgs ==
    [name |-> "", notes |-> "", is_urgent |-> "", due_date |-> Null,
     tags |-> {}, frequency |-> "", interval |-> Absent, weekdays |-> {},
     day_of_month |-> Absent, anchor |-> ""]

Begin(op, uuid, flag, args, st) ==
    [op |-> op, uuid |-> uuid, flag |-> flag, args |-> args,
     pc |-> op, result |-> "", now |-> st.now,
     task |-> NoTask, template |-> NoTask, rule |-> NoRule,
     isSkip |-> FALSE, nextDueDate |-> Null, hasOpen |-> "",
     newID |-> 0, tagsLeft |-> {}, created |-> {}]

Goto(st, f, pc) == [st |-> st, f |-> [f EXCEPT !.pc = pc]]
Return(st, f, result) == [st |-> st, f |-> [f EXCEPT !.pc = "done", !.result = result]]

\* update("tasks", [id=eq.uuid], {field: value})
UpdateTask(st, uuid, field, value) ==
    [st EXCEPT !.tasks =
        {IF t.id = uuid THEN [t EXCEPT ![field] = value] ELSE t : t \in st.tasks}]

(***************************************************************************)
(* createOccurrenceTask(template, dueDate)                                 *)
(***************************************************************************)
\* the row createOccurrenceTask inserts
OccurrenceRow(uuid, template, dueDate) ==
    [id |-> uuid, series_id |-> template.series_id,
     is_recurring_template |-> FALSE, recurrence_parent_id |-> template.id,
     name |-> template.name, note |-> template.note,
     is_urgent_alarm |-> template.is_urgent_alarm,
     status |-> FALSE, is_skipped |-> FALSE, is_deleted |-> FALSE,
     due_date |-> dueDate, recurrence_rule_data |-> NullData,
     recurrence_status |-> ""]

\* insert("tasks", row): the row is stored and remembered as created by f
InsertOccurrence(st, f, row) ==
    Goto([st EXCEPT !.tasks = @ \cup {row},
                    !.nextUUID = @ + 1,
                    !.inserted = @ \cup
                        {[id |-> row.id, series_id |-> row.series_id,
                          after_ended |-> row.series_id \in st.everEnded]}],
         [f EXCEPT !.newID = row.id, !.created = @ \cup {row.id}],
         "createOccurrenceTask_selectTags")

\* mutant: the insert is skipped when the series has an open occurrence by then
createOccurrenceTask_insert_unlessOpen(st, f) ==
    IF hasOpenOccurrence(st, f.template.series_id)
    THEN Return(st, f, "success")
    ELSE InsertOccurrence(st, f, OccurrenceRow(st.nextUUID, f.template, f.nextDueDate))

\* insert("tasks", {...}) with a fresh uuid
createOccurrenceTask_insert(st, f) ==
    InsertOccurrence(st, f, OccurrenceRow(st.nextUUID, f.template, f.nextDueDate))

\* select("task_tags", task_id = template.id, limit 100)
createOccurrenceTask_selectTags(st, f) ==
    LET templateTags ==
            Limit({r \in st.task_tags : r.task_id = f.template.id}, TagSelectLimit)
        ids == {r.tag_id : r \in templateTags}
    IN  IF ids = {}
        THEN Return(st, f, "success")
        ELSE Goto(st, [f EXCEPT !.tagsLeft = ids], "createOccurrenceTask_insertTag")

\* one turn of: for (const tag of templateTags) insert("task_tags", ...)
createOccurrenceTask_insertTag(st, f) ==
    LET tag  == SetMin(f.tagsLeft)
        st2  == [st EXCEPT !.task_tags = @ \cup {[task_id |-> f.newID, tag_id |-> tag]}]
        left == f.tagsLeft \ {tag}
    IN  IF left = {}
        THEN Return(st2, [f EXCEPT !.tagsLeft = left], "success")
        ELSE Goto(st2, [f EXCEPT !.tagsLeft = left], "createOccurrenceTask_insertTag")

(***************************************************************************)
(* createNextOccurrence(task, completionDate, isSkip)                      *)
(***************************************************************************)
\* the anchor date handed to the engine
\* mutant: a skip follows the rule's anchor mode
anchorDateOf_skipAsCompletion(rule, task, completionDate, isSkip) ==
    IF rule.anchor = "scheduledDueDate"
    THEN IF task.due_date # Null THEN task.due_date ELSE completionDate
    ELSE completionDate

anchorDateOf(rule, task, completionDate, isSkip) ==
    IF isSkip \/ rule.anchor = "scheduledDueDate"
    THEN IF task.due_date # Null THEN task.due_date ELSE completionDate
    ELSE completionDate

\* if (!nextDueDate) the series ends, otherwise the open occurrence is looked for
createNextOccurrence_next(st, f) ==
    IF f.nextDueDate = Null
    THEN Goto(st, f, "createNextOccurrence_end")
    ELSE Goto(st, f, "createNextOccurrence_hasOpen")

\* rule = JSON.parse(...); anchorDate; nextDueDate = engine.nextOccurrenceDate(...)
createNextOccurrence_engine(st, f, template, rule) ==
    createNextOccurrence_next(st,
        [f EXCEPT !.template = template, !.rule = rule,
                  !.nextDueDate =
                      nextOccurrenceDate(rule,
                                         anchorDateOf(rule, f.task, f.now, f.isSkip),
                                         st.now)])

\* mutant: rule data that does not parse ends the series
createNextOccurrence_template_endsUnparsed(st, f, template) ==
    IF template.recurrence_status # "active"
    THEN Return(st, f, "success")
    ELSE IF template.recurrence_rule_data.kind = "null"
    THEN Return(st, f, "success")
    ELSE IF ~JSONParses(template.recurrence_rule_data)
    THEN Goto(st, [f EXCEPT !.template = template], "createNextOccurrence_end")
    ELSE createNextOccurrence_engine(st, f, template,
                                     JSONParse(template.recurrence_rule_data))

\* the checks on the template createNextOccurrence has selected
createNextOccurrence_template(st, f, template) ==
    IF template.recurrence_status # "active"
    THEN Return(st, f, "success")
    ELSE IF template.recurrence_rule_data.kind = "null"
    THEN Return(st, f, "success")
    ELSE IF ~JSONParses(template.recurrence_rule_data)
    THEN Return(st, f, "success")
    ELSE createNextOccurrence_engine(st, f, template,
                                     JSONParse(template.recurrence_rule_data))

\* select the template, then everything up to the next store call
createNextOccurrence_select(st, f) ==
    IF SelectTemplates(st, f.task.series_id) = {}
    THEN Return(st, f, "success")
    ELSE createNextOccurrence_template(st, f,
             CHOOSE t \in SelectTemplates(st, f.task.series_id) : TRUE)

\* mutant: the series is not ended when the engine returns null
createNextOccurrence_end_noUpdate(st, f) == Return(st, f, "success")

\* update(template, recurrence_status: "ended")
createNextOccurrence_end(st, f) ==
    Return([UpdateTask(st, f.template.id, "recurrence_status", "ended")
               EXCEPT !.everEnded = @ \cup {f.template.series_id}],
           f, "success")

\* if (await this.hasOpenOccurrence(seriesID)) return null
createNextOccurrence_hasOpen(st, f) ==
    IF hasOpenOccurrence(st, f.task.series_id)
    THEN Return(st, [f EXCEPT !.hasOpen = "true"], "success")
    ELSE Goto(st, [f EXCEPT !.hasOpen = "false"], "createNextOccurrence_updateRule")

\* mutant: the rule is written back without the increment
createNextOccurrence_updateRule_noIncrement(st, f) ==
    Goto(UpdateTask(st, f.template.id, "recurrence_rule_data", JSONStringify(f.rule)),
         f, "createOccurrenceTask_insert")

\* rule.occurrencesGenerated + 1, written back to the template
createNextOccurrence_updateRule(st, f) ==
    LET rule == [f.rule EXCEPT !.occurrencesGenerated = @ + 1]
    IN  Goto(UpdateTask(st, f.template.id, "recurrence_rule_data", JSONStringify(rule)),
             [f EXCEPT !.rule = rule],
             "createOccurrenceTask_insert")

(***************************************************************************)
(* createNextOccurrenceAfterDelete(task)                                   *)
(***************************************************************************)
\* mutant: the series' status is not checked after a delete
createNextOccurrenceAfterDelete_select_anyStatus(st, f) ==
    LET templates == SelectTemplates(st, f.task.series_id)
    IN  IF templates = {}
        THEN Return(st, f, "success")
        ELSE Goto(st, [f EXCEPT !.template = CHOOSE t \in templates : TRUE],
                  "createNextOccurrenceAfterDelete_hasOpen")

createNextOccurrenceAfterDelete_select(st, f) ==
    LET templates == SelectTemplates(st, f.task.series_id)
    IN  IF templates = {}
        THEN Return(st, f, "success")
        ELSE
        LET template == CHOOSE t \in templates : TRUE
        IN  IF template.recurrence_status # "active"
            THEN Return(st, f, "success")
            ELSE Goto(st, [f EXCEPT !.template = template],
                      "createNextOccurrenceAfterDelete_hasOpen")

\* if (nextDueDate) await this.createOccurrenceTask(template, nextDueDate)
createNextOccurrenceAfterDelete_next(st, f) ==
    IF f.nextDueDate # Null
    THEN Goto(st, f, "createOccurrenceTask_insert")
    ELSE Return(st, f, "success")

\* mutant: the next date is computed from the time of the delete
createNextOccurrenceAfterDelete_engine_fromNow(st, f, rule) ==
    createNextOccurrenceAfterDelete_next(st,
        [f EXCEPT !.hasOpen = "false", !.rule = rule,
                  !.nextDueDate = nextOccurrenceDate(rule, st.now, st.now)])

\* deletedDueDate = parseDate(task.due_date) || now; the engine's next date
createNextOccurrenceAfterDelete_engine(st, f, rule) ==
    createNextOccurrenceAfterDelete_next(st,
        [f EXCEPT !.hasOpen = "false", !.rule = rule,
                  !.nextDueDate =
                      nextOccurrenceDate(rule,
                          IF f.task.due_date # Null THEN f.task.due_date ELSE st.now,
                          st.now)])

\* a variant that skips the open-occurrence check after a delete
createNextOccurrenceAfterDelete_hasOpen_unchecked(st, f) ==
    IF f.template.recurrence_rule_data.kind = "null"
    THEN Return(st, [f EXCEPT !.hasOpen = "false"], "success")
    ELSE IF ~JSONParses(f.template.recurrence_rule_data)
    THEN Return(st, [f EXCEPT !.hasOpen = "false"], "success")
    ELSE createNextOccurrenceAfterDelete_engine(st, f,
             JSONParse(f.template.recurrence_rule_data))

createNextOccurrenceAfterDelete_hasOpen(st, f) ==
    IF hasOpenOccurrence(st, f.task.series_id)
    THEN Return(st, [f EXCEPT !.hasOpen = "true"], "success")
    ELSE IF f.template.recurrence_rule_data.kind = "null"
    THEN Return(st, [f EXCEPT !.hasOpen = "false"], "success")
    ELSE IF ~JSONParses(f.template.recurrence_rule_data)
    THEN Return(st, [f EXCEPT !.hasOpen = "false"], "success")
    ELSE createNextOccurrenceAfterDelete_engine(st, f,
             JSONParse(f.template.recurrence_rule_data))

(***************************************************************************)
(* completeTask(args): uuid, completed = flag                              *)
(***************************************************************************)
completeTask_select(st, f) ==
    LET rows == SelectTaskByID(st, f.uuid)
    IN  IF rows = {}
        THEN Return(st, f, "not_found")
        ELSE Goto(st, [f EXCEPT !.task = CHOOSE t \in rows : TRUE], "completeTask_update")

completeTask_update(st, f) ==
    LET st2 == UpdateTask(st, f.uuid, "status", f.flag)
    IN  IF f.flag /\ f.task.series_id # 0 /\ ~f.task.is_recurring_template
        THEN Goto(st2, [f EXCEPT !.isSkip = FALSE], "createNextOccurrence_select")
        ELSE Return(st2, f, "success")

(***************************************************************************)
(* skipRecurringTask(args)                                                 *)
(***************************************************************************)
skipRecurringTask_select(st, f) ==
    LET rows == SelectTaskByID(st, f.uuid)
    IN  IF rows = {}
        THEN Return(st, f, "not_found")
        ELSE
        LET task == CHOOSE t \in rows : TRUE
        IN  IF task.series_id = 0 \/ task.is_recurring_template
            THEN Return(st, f, "error")
            ELSE Goto(st, [f EXCEPT !.task = task], "skipRecurringTask_update")

skipRecurringTask_update(st, f) ==
    Goto(UpdateTask(st, f.uuid, "is_skipped", TRUE),
         [f EXCEPT !.isSkip = TRUE], "createNextOccurrence_select")

(***************************************************************************)
(* findSeriesTemplate(uuid), as called by pause / resume / end             *)
(***************************************************************************)
\* where the caller goes on once the template is found
afterFindSeriesTemplate(op) ==
    CASE op = "pause_recurring_series"  -> "pauseRecurringSeries_update"
      [] op = "resume_recurring_series" -> "resumeRecurringSeries_update"
      [] op = "end_recurring_series"    -> "endRecurringSeries_update"

findSeriesTemplate_selectTask(st, f) ==
    LET rows == SelectTaskByID(st, f.uuid)
    IN  IF rows = {}
        THEN Return(st, f, "error")
        ELSE
        LET task == CHOOSE t \in rows : TRUE
        IN  IF task.series_id = 0
            THEN Return(st, f, "error")
            ELSE IF task.is_recurring_template
            THEN Goto(st, [f EXCEPT !.task = task, !.template = task, !.now = st.now],
                      afterFindSeriesTemplate(f.op))
            ELSE Goto(st, [f EXCEPT !.task = task], "findSeriesTemplate_selectTemplate")

findSeriesTemplate_selectTemplate(st, f) ==
    LET templates == SelectTemplates(st, f.task.series_id)
    IN  IF templates = {}
        THEN Return(st, f, "error")
        ELSE Goto(st, [f EXCEPT !.template = CHOOSE t \in templates : TRUE,
                                !.now = st.now],
                  afterFindSeriesTemplate(f.op))

(***************************************************************************)
(* pauseRecurringSeries, resumeRecurringSeries, endRecurringSeries         *)
(***************************************************************************)
pauseRecurringSeries_update(st, f) ==
    Return(UpdateTask(st, f.template.id, "recurrence_status", "paused"),
           f, "success")

resumeRecurringSeries_update(st, f) ==
    Goto(UpdateTask(st, f.template.id, "recurrence_status", "active"),
         f, "resumeRecurringSeries_hasOpen")

\* hasOpenOccurrence, then the rule is parsed from the template read before
\* the update; JSON.parse is not guarded here and its throw reaches execute
\* if (nextDueDate) await this.createOccurrenceTask(template, nextDueDate)
resumeRecurringSeries_next(st, f) ==
    IF f.nextDueDate # Null
    THEN Goto(st, f, "createOccurrenceTask_insert")
    ELSE Return(st, f, "success")

\* rule = JSON.parse(...), not guarded; nextOccurrenceDate(rule, now, now)
resumeRecurringSeries_engine(st, f) ==
    IF ~JSONParses(f.template.recurrence_rule_data)
    THEN Return(st, f, "error")
    ELSE resumeRecurringSeries_next(st,
             [f EXCEPT !.rule = JSONParse(f.template.recurrence_rule_data),
                       !.nextDueDate =
                           nextOccurrenceDate(JSONParse(f.template.recurrence_rule_data),
                                              f.now, f.now)])

\* mutant: resume does not look for an open occurrence
resumeRecurringSeries_hasOpen_unchecked(st, f) ==
    IF f.template.recurrence_rule_data.kind # "null"
    THEN resumeRecurringSeries_engine(st, [f EXCEPT !.hasOpen = "false"])
    ELSE Return(st, [f EXCEPT !.hasOpen = "false"], "success")

resumeRecurringSeries_hasOpen(st, f) ==
    IF hasOpenOccurrence(st, f.template.series_id)
    THEN Return(st, [f EXCEPT !.hasOpen = "true"], "success")
    ELSE IF f.template.recurrence_rule_data.kind # "null"
    THEN resumeRecurringSeries_engine(st, [f EXCEPT !.hasOpen = "false"])
    ELSE Return(st, [f EXCEPT !.hasOpen = "false"], "success")

endRecurringSeries_update(st, f) ==
    Return([UpdateTask(st, f.template.id, "recurrence_status", "ended")
               EXCEPT !.everEnded = @ \cup {f.template.series_id}],
           f, "success")

(***************************************************************************)
(* deleteTask(args): uuid, permanent = flag                                *)
(***************************************************************************)
deleteTask_select(st, f) ==
    LET rows == SelectTaskByID(st, f.uuid)
    IN  IF rows = {}
        THEN Return(st, f, "not_found")
        ELSE Goto(st, [f EXCEPT !.task = CHOOSE t \in rows : TRUE],
                  IF f.flag THEN "deleteTask_deleteTags" ELSE "deleteTask_update")

deleteTask_deleteTags(st, f) ==
    Goto([st EXCEPT !.task_tags = {r \in @ : r.task_id # f.uuid}],
         f, "deleteTask_deleteTask")

deleteTask_deleteTask(st, f) ==
    Return([st EXCEPT !.tasks = {t \in @ : t.id # f.uuid}], f, "success")

deleteTask_update(st, f) ==
    LET st2 == UpdateTask(st, f.uuid, "is_deleted", TRUE)
    IN  IF f.task.series_id # 0 /\ ~f.task.is_recurring_template
           /\ f.task.due_date # Null
        THEN Goto(st2, f, "createNextOccurrenceAfterDelete_select")
        ELSE Return(st2, f, "success")

(***************************************************************************)
(* createRecurringTask(args), updateTask(args)                             *)
(***************************************************************************)
\* parseDate of an absolute date: the day at noon; null when it does not parse
parseDate(input) == IF input = Null THEN Null ELSE MakeDate(input, NoonTick)

\* the rule createRecurringTask builds from its arguments
ruleOfArgs(args) ==
    [frequency |-> args.frequency,
     interval |-> IF args.interval # Absent THEN args.interval ELSE 1,
     weekdays |-> args.weekdays,
     monthlyMode |-> IF args.day_of_month # Absent THEN "dayOfMonth" ELSE "",
     dayOfMonth |-> args.day_of_month,
     ordinalWeek |-> Absent, ordinalWeekday |-> Absent, monthOfYear |-> Absent,
     anchor |-> IF args.anchor # "" THEN args.anchor ELSE "scheduledDueDate",
     endCondition |-> [type |-> "never", count |-> Absent, date |-> Absent],
     occurrencesGenerated |-> 1]

\* the template row of a new series
TemplateRow(templateUUID, seriesID, args, dueDate, rule) ==
    [id |-> templateUUID, series_id |-> seriesID,
     is_recurring_template |-> TRUE, recurrence_parent_id |-> 0,
     name |-> args.name, note |-> args.notes,
     is_urgent_alarm |-> (args.is_urgent = "true"),
     status |-> FALSE, is_skipped |-> FALSE, is_deleted |-> FALSE,
     due_date |-> dueDate, recurrence_rule_data |-> JSONStringify(rule),
     recurrence_status |-> "active"]

\* the first occurrence's row
FirstOccurrenceRow(occurrenceUUID, templateUUID, seriesID, args, dueDate) ==
    [id |-> occurrenceUUID, series_id |-> seriesID,
     is_recurring_template |-> FALSE, recurrence_parent_id |-> templateUUID,
     name |-> args.name, note |-> args.notes,
     is_urgent_alarm |-> (args.is_urgent = "true"),
     status |-> FALSE, is_skipped |-> FALSE, is_deleted |-> FALSE,
     due_date |-> dueDate, recurrence_rule_data |-> NullData,
     recurrence_status |-> ""]

\* the argument checks, the three fresh uuids and the template's insert
createRecurringTask_insertTemplate(st, f) ==
    IF f.args.name = "" \/ f.args.frequency = "" \/ parseDate(f.args.due_date) = Null
    THEN Return(st, f, "error")
    ELSE
    LET seriesID == st.nextUUID
        templateUUID == st.nextUUID + 1
        occurrenceUUID == st.nextUUID + 2
        template == TemplateRow(templateUUID, seriesID, f.args,
                                parseDate(f.args.due_date), ruleOfArgs(f.args))
    IN  Goto([st EXCEPT !.tasks = @ \cup {template}, !.nextUUID = @ + 3],
             [f EXCEPT !.template = template, !.newID = occurrenceUUID],
             "createRecurringTask_insertOccurrence")

createRecurringTask_insertOccurrence(st, f) ==
    LET row == FirstOccurrenceRow(f.newID, f.template.id, f.template.series_id,
                                  f.args, f.template.due_date)
        st2 == [st EXCEPT !.tasks = @ \cup {row},
                          !.inserted = @ \cup {[id |-> row.id, series_id |-> row.series_id,
                                                after_ended |-> FALSE]}]
        f2  == [f EXCEPT !.created = @ \cup {row.id}, !.tagsLeft = f.args.tags]
    IN  IF f.args.tags = {}
        THEN Return(st2, f2, "success")
        ELSE Goto(st2, f2, "createRecurringTask_tagTemplate")

\* one turn of the loop over tagIDs: the template's row, then the occurrence's
createRecurringTask_tagTemplate(st, f) ==
    Goto([st EXCEPT !.task_tags = @ \cup
              {[task_id |-> f.template.id, tag_id |-> SetMin(f.tagsLeft)]}],
         f, "createRecurringTask_tagOccurrence")

createRecurringTask_tagOccurrence(st, f) ==
    LET tag  == SetMin(f.tagsLeft)
        st2  == [st EXCEPT !.task_tags = @ \cup {[task_id |-> f.newID, tag_id |-> tag]}]
        left == f.tagsLeft \ {tag}
    IN  IF left = {}
        THEN Return(st2, [f EXCEPT !.tagsLeft = left], "success")
        ELSE Goto(st2, [f EXCEPT !.tagsLeft = left], "createRecurringTask_tagTemplate")

\* updateTask: name, notes, urgency and due date, each when given
updateTask_given(st, given, uuid, field, value) ==
    IF given THEN UpdateTask(st, uuid, field, value) ELSE st

updateTask_update(st, f) ==
    Return(updateTask_given(
               updateTask_given(
                   updateTask_given(
                       updateTask_given(st, f.args.name # "", f.uuid, "name", f.args.name),
                       f.args.notes # "", f.uuid, "note", f.args.notes),
                   f.args.is_urgent # "", f.uuid, "is_urgent_alarm",
                   f.args.is_urgent = "true"),
               parseDate(f.args.due_date) # Null, f.uuid, "due_date",
               parseDate(f.args.due_date)),
           f, "success")

(***************************************************************************)
(* ToolExecutor.execute: one store call of the handler in progress         *)
(***************************************************************************)
Step(st, f) ==
    CASE f.pc = "complete_task" -> completeTask_select(st, f)
      [] f.pc = "completeTask_update" -> completeTask_update(st, f)
      [] f.pc = "skip_recurring_task" -> skipRecurringTask_select(st, f)
      [] f.pc = "skipRecurringTask_update" -> skipRecurringTask_update(st, f)
      [] f.pc \in {"pause_recurring_series", "resume_recurring_series",
                   "end_recurring_series"} -> findSeriesTemplate_selectTask(st, f)
      [] f.pc = "findSeriesTemplate_selectTemplate" ->
            findSeriesTemplate_selectTemplate(st, f)
      [] f.pc = "pauseRecurringSeries_update" -> pauseRecurringSeries_update(st, f)
      [] f.pc = "resumeRecurringSeries_update" -> resumeRecurringSeries_update(st, f)
      [] f.pc = "resumeRecurringSeries_hasOpen" -> resumeRecurringSeries_hasOpen(st, f)
      [] f.pc = "endRecurringSeries_update" -> endRecurringSeries_update(st, f)
      [] f.pc = "delete_task" -> deleteTask_select(st, f)
      [] f.pc = "deleteTask_deleteTags" -> deleteTask_deleteTags(st, f)
      [] f.pc = "deleteTask_deleteTask" -> deleteTask_deleteTask(st, f)
      [] f.pc = "deleteTask_update" -> deleteTask_update(st, f)
      [] f.pc = "createNextOccurrence_select" -> createNextOccurrence_select(st, f)
      [] f.pc = "createNextOccurrence_end" -> createNextOccurrence_end(st, f)
      [] f.pc = "createNextOccurrence_hasOpen" -> createNextOccurrence_hasOpen(st, f)
      [] f.pc = "createNextOccurrence_updateRule" ->
            createNextOccurrence_updateRule(st, f)
      [] f.pc = "createNextOccurrenceAfterDelete_select" ->
            createNextOccurrenceAfterDelete_select(st, f)
      [] f.pc = "createNextOccurrenceAfterDelete_hasOpen" ->
            createNextOccurrenceAfterDelete_hasOpen(st, f)
      [] f.pc = "createOccurrenceTask_insert" -> createOccurrenceTask_insert(st, f)
      [] f.pc = "createOccurrenceTask_selectTags" ->
            createOccurrenceTask_selectTags(st, f)
      [] f.pc = "createOccurrenceTask_insertTag" ->
            createOccurrenceTask_insertTag(st, f)
      [] f.pc = "create_recurring_task" -> createRecurringTask_insertTemplate(st, f)
      [] f.pc = "createRecurringTask_insertOccurrence" ->
            createRecurringTask_insertOccurrence(st, f)
      [] f.pc = "createRecurringTask_tagTemplate" ->
            createRecurringTask_tagTemplate(st, f)
      [] f.pc = "createRecurringTask_tagOccurrence" ->
            createRecurringTask_tagOccurrence(st, f)
      [] f.pc = "update_task" -> updateTask_update(st, f)

\* a tool call executed to completion with no other call interleaved
RECURSIVE execute(_, _)
executeFrom(r) == execute(r.st, r.f)
execute(st, f) ==
    IF f.pc = "done"
    THEN [st |-> st, f |-> f]
    ELSE executeFrom(Step(st, f))

(***************************************************************************)
(* State.  tasks, task_tags: the store's tables.  nextUUID: the supply of  *)
(* crypto.randomUUID.  now: the clock.  inserted: history of every         *)
(* occurrence row inserted (after_ended: its series had been ended         *)
(* before).  everEnded: the series whose template has been set to ended.   *)
(* last: the last tool call, its result and the tables before it.  calls:  *)
(* the frames of the tool calls in progress (SpecRace).  eng: the engine's *)
(* inputs and result (SpecEngine).                                         *)
(***************************************************************************)
VARIABLES tasks, task_tags, nextUUID, now, inserted, everEnded, last, calls, eng
vars == <<tasks, task_tags, nextUUID, now, inserted, everEnded, last, calls, eng>>

\* bounds: uuids handed out, and ticks the clock advances in all
MaxUUID == 4
MaxElapsed == 2

\* the first day of the model: Monday 2025-02-03
StartDay == DaysFromCivil(2025, 2, 3)
StartTick == MakeDate(StartDay, NoonTick)

Store ==
    [tasks |-> tasks, task_tags |-> task_tags, nextUUID |-> nextUUID,
     now |-> now, inserted |-> inserted, everEnded |-> everEnded]

EmptyStore ==
    [tasks |-> {}, task_tags |-> {}, nextUUID |-> 1, now |-> StartTick,
     inserted |-> {}, everEnded |-> {}]

NoCall ==
    [op |-> "", uuid |-> 0, flag |-> FALSE, result |-> "", created |-> {},
     pre_tasks |-> {}, pre_tags |-> {}]

NoEngine ==
    [rule |-> NoRule, anchorDate |-> 0, referenceDate |-> 0, result |-> Null,
     called |-> FALSE]

(***************************************************************************)
(* Inputs.                                                                 *)
(***************************************************************************)
DailyArgs ==
    [NoArgs EXCEPT !.name = "A", !.due_date = StartDay, !.frequency = "daily"]
WeeklyArgs ==
    [NoArgs EXCEPT !.name = "A", !.notes = "n", !.is_urgent = "true",
                   !.due_date = StartDay, !.tags = {1}, !.frequency = "weekly",
                   !.weekdays = {2, 4, 6}, !.anchor = "completionDate"]
WeeklyScheduledArgs ==
    [NoArgs EXCEPT !.name = "A", !.due_date = StartDay, !.frequency = "weekly",
                   !.weekdays = {2, 4, 6}]
InvalidArgs == [DailyArgs EXCEPT !.due_date = Null]
CreateArgs == {DailyArgs, WeeklyArgs, WeeklyScheduledArgs, InvalidArgs}

\* rules create_recurring_task cannot write, stored by the app that shares
\* the store; each with the counter of a series that has its first occurrence
AppRule(endCondition, anchor) ==
    [ruleOfArgs(DailyArgs) EXCEPT !.endCondition = endCondition, !.anchor = anchor]
StoredRuleData ==
    {JSONStringify(AppRule([type |-> "afterOccurrences", count |-> 2, date |-> Absent],
                           "scheduledDueDate")),
     JSONStringify(AppRule([type |-> "onDate", count |-> Absent,
                            date |-> MakeDate(StartDay + 1, 0)],
                           "scheduledDueDate")),
     GarbageData}

\* the store after the app created a series whose template holds data; its
\* first occurrence is one day overdue and has been renamed
StoreWithSeries(data) ==
    LET r == execute(EmptyStore,
                     Begin("create_recurring_task", 0, FALSE,
                           [DailyArgs EXCEPT !.tags = {1}, !.due_date = StartDay - 1],
                           EmptyStore))
    IN  [r.st EXCEPT !.tasks =
            {IF t.is_recurring_template
             THEN [t EXCEPT !.recurrence_rule_data = data]
             ELSE [t EXCEPT !.name = "B"] : t \in @}]

InitialStores == {EmptyStore} \cup {StoreWithSeries(d) : d \in StoredRuleData}

(***************************************************************************)
(* Spec: tool calls executed one at a time, each to completion.            *)
(***************************************************************************)
Init ==
    /\ \E st \in InitialStores :
          /\ tasks = st.tasks
          /\ task_tags = st.task_tags
          /\ nextUUID = st.nextUUID
          /\ now = st.now
          /\ inserted = st.inserted
          /\ everEnded = st.everEnded
    /\ last = NoCall
    /\ calls = <<>>
    /\ eng = NoEngine

\* the CallTool request handler runs the tool call op(uuid, flag, args) to
\* completion; last holds the call, its result and the tables before it
Call(op, uuid, flag, args) ==
    /\ last = NoCall
    /\ \E r \in {execute(Store, Begin(op, uuid, flag, args, Store))} :
           /\ r.st.nextUUID <= MaxUUID + 1
           /\ tasks' = r.st.tasks
           /\ task_tags' = r.st.task_tags
           /\ nextUUID' = r.st.nextUUID
           /\ inserted' = r.st.inserted
           /\ everEnded' = r.st.everEnded
           /\ last' = [op |-> op, uuid |-> uuid, flag |-> flag,
                       result |-> r.f.result, created |-> r.f.created,
                       pre_tasks |-> tasks, pre_tags |-> task_tags]
    /\ UNCHANGED <<now, calls, eng>>

\* the handler returns the result as the response's content
Respond ==
    /\ last # NoCall
    /\ last' = NoCall
    /\ UNCHANGED <<tasks, task_tags, nextUUID, now, inserted, everEnded, calls, eng>>

\* time passes between two calls
AdvanceClock ==
    /\ last = NoCall
    /\ now < StartTick + MaxElapsed
    /\ now' = now + 1
    /\ UNCHANGED <<tasks, task_tags, nextUUID, inserted, everEnded, last, calls, eng>>

\* the uuids a caller names: those of the rows of tasks, and one of no row;
\* complete, skip and delete are called on occurrences, not on templates
UUIDs == {t.id : t \in tasks} \cup {0}
OccurrenceUUIDs == {t.id : t \in {r \in tasks : ~r.is_recurring_template}} \cup {0}

CreateRecurringTask ==
    \E args \in CreateArgs:
        Call("create_recurring_task", 0, FALSE, args)
CompleteTask ==
    \E u \in OccurrenceUUIDs, completed \in BOOLEAN:
        Call("complete_task", u, completed, NoArgs)
SkipRecurringTask ==
    \E u \in OccurrenceUUIDs:
        Call("skip_recurring_task", u, FALSE, NoArgs)
PauseRecurringSeries ==
    \E u \in UUIDs:
        Call("pause_recurring_series", u, FALSE, NoArgs)
ResumeRecurringSeries ==
    \E u \in UUIDs:
        Call("resume_recurring_series", u, FALSE, NoArgs)
EndRecurringSeries ==
    \E u \in UUIDs:
        Call("end_recurring_series", u, FALSE, NoArgs)
DeleteTask ==
    \E u \in OccurrenceUUIDs, permanent \in BOOLEAN:
        Call("delete_task", u, permanent, NoArgs)

Next ==
    \/ CreateRecurringTask
    \/ CompleteTask
    \/ SkipRecurringTask
    \/ PauseRecurringSeries
    \/ ResumeRecurringSeries
    \/ EndRecurringSeries
    \/ DeleteTask
    \/ Respond
    \/ AdvanceClock

Spec == Init /\ [][Next]_vars

(***************************************************************************)
(* Properties of the series lifecycle (Spec).                              *)
(***************************************************************************)
SeriesIDs(rows) == {t.series_id : t \in rows} \ {0}
RowsByID(rows, uuid) == {t \in rows : t.id = uuid}
TemplatesOf(rows, seriesID) ==
    {t \in rows : t.series_id = seriesID /\ t.is_recurring_template}
OccurrencesOf(rows, seriesID) ==
    {t \in rows : t.series_id = seriesID /\ ~t.is_recurring_template}
TagsOf(junctions, uuid) == {r.tag_id : r \in {x \in junctions : x.task_id = uuid}}
InsertedInto(seriesID) == {i \in inserted : i.series_id = seriesID}
\* the last call was op with this flag, on an occurrence row of the tables
\* before it
CalledOnOccurrence(op, flag) ==
    /\ last.op = op
    /\ last.flag = flag
    /\ \E t \in RowsByID(last.pre_tasks, last.uuid) :
          t.series_id # 0 /\ ~t.is_recurring_template
TargetBefore == CHOOSE t \in RowsByID(last.pre_tasks, last.uuid) : TRUE
TargetAfter == CHOOSE t \in RowsByID(tasks, last.uuid) : TRUE
\* the target's template before the call, when CalledOnOccurrence and it exists
TemplateBefore == CHOOSE t \in TemplatesOf(last.pre_tasks, TargetBefore.series_id) : TRUE
TemplateAfter == CHOOSE t \in TemplatesOf(tasks, TargetBefore.series_id) : TRUE
HasTemplateBefore == TemplatesOf(last.pre_tasks, TargetBefore.series_id) # {}
\* the date the engine returns to the completion (isSkip = FALSE) or skip
EngineDateBefore(isSkip) ==
    LET rule == JSONParse(TemplateBefore.recurrence_rule_data)
    IN  nextOccurrenceDate(rule, anchorDateOf(rule, TargetBefore, now, isSkip), now)

\* C1: every series has at most one open occurrence (an occurrence row that
\* is not completed, not skipped and not deleted) after any sequence of
\* tool calls, complete_task(completed=false) included.
C1_AtMostOneOpenOccurrence ==
    \A s \in SeriesIDs(tasks) : Cardinality(OpenOccurrences(tasks, s)) <= 1

\* C3: once a template's recurrenceStatus has become ended, no occurrence
\* row is ever inserted for its series.
C3_NoInsertAfterEnded == \A i \in inserted : ~i.after_ended

\* C4: a template's recurrenceStatus changes only active -> paused (pause),
\* paused -> active (resume), active or paused -> ended (end, or exhaustion
\* on completion / skip); pause and resume leave an ended series ended.
C4_StatusTransitions ==
    last # NoCall =>
        \A p \in last.pre_tasks : \A t \in RowsByID(tasks, p.id) :
            (p.is_recurring_template /\ p.recurrence_status # t.recurrence_status) =>
                \/ /\ p.recurrence_status = "active"
                   /\ t.recurrence_status = "paused"
                   /\ last.op = "pause_recurring_series"
                \/ /\ p.recurrence_status = "paused"
                   /\ t.recurrence_status = "active"
                   /\ last.op = "resume_recurring_series"
                \/ /\ p.recurrence_status \in {"active", "paused"}
                   /\ t.recurrence_status = "ended"
                   /\ last.op \in {"end_recurring_series", "complete_task",
                                   "skip_recurring_task"}

\* C5: complete_task(completed=true) on the open occurrence of an active
\* series whose rule parses and for which the engine returns a date d marks
\* it completed, inserts exactly one occurrence, due d, with name, notes,
\* urgency and tags of the template, which is then the one open occurrence,
\* and adds exactly 1 to the template's occurrencesGenerated.
C5_Precondition ==
    /\ CalledOnOccurrence("complete_task", TRUE)
    /\ OpenOccurrences(last.pre_tasks, TargetBefore.series_id) = {TargetBefore}
    /\ HasTemplateBefore
    /\ TemplateBefore.recurrence_status = "active"
    /\ JSONParses(TemplateBefore.recurrence_rule_data)
    /\ EngineDateBefore(FALSE) # Null
C5_CompletionCreatesNext ==
    C5_Precondition =>
        /\ last.result = "success"
        /\ TargetAfter = [TargetBefore EXCEPT !.status = TRUE]
        /\ Cardinality(last.created) = 1
        /\ {t.id : t \in tasks} = {t.id : t \in last.pre_tasks} \cup last.created
        /\ \A n \in last.created : \E r \in RowsByID(tasks, n) :
              /\ r.due_date = EngineDateBefore(FALSE)
              /\ r.series_id = TargetBefore.series_id
              /\ ~r.is_recurring_template
              /\ r.name = TemplateBefore.name
              /\ r.note = TemplateBefore.note
              /\ r.is_urgent_alarm = TemplateBefore.is_urgent_alarm
              /\ TagsOf(task_tags, n) = TagsOf(last.pre_tags, TemplateBefore.id)
              /\ OpenOccurrences(tasks, TargetBefore.series_id) = {r}
        /\ JSONParses(TemplateAfter.recurrence_rule_data)
        /\ JSONParse(TemplateAfter.recurrence_rule_data).occurrencesGenerated =
              JSONParse(TemplateBefore.recurrence_rule_data).occurrencesGenerated + 1
C5_Witness ==
    /\ C5_Precondition
    /\ last.created # {}
    /\ TemplateBefore.name # TargetBefore.name
    /\ TagsOf(last.pre_tags, TemplateBefore.id) # {}

\* C6: while the template is paused or ended, complete_task, skip and
\* non-permanent delete of an occurrence still mark it and report success,
\* insert nothing and leave the template as it was; no call but resume
\* inserts an occurrence into a paused series.
C6_MarkedBy(op) ==
    CASE op = "complete_task" -> [TargetBefore EXCEPT !.status = TRUE]
      [] op = "skip_recurring_task" -> [TargetBefore EXCEPT !.is_skipped = TRUE]
      [] op = "delete_task" -> [TargetBefore EXCEPT !.is_deleted = TRUE]
C6_Precondition ==
    /\ \/ CalledOnOccurrence("complete_task", TRUE)
       \/ CalledOnOccurrence("skip_recurring_task", FALSE)
       \/ CalledOnOccurrence("delete_task", FALSE)
    /\ HasTemplateBefore
    /\ TemplateBefore.recurrence_status \in {"paused", "ended"}
C6_NothingWhilePausedOrEnded ==
    /\ C6_Precondition =>
          /\ last.result = "success"
          /\ last.created = {}
          /\ tasks = (last.pre_tasks \ {TargetBefore}) \cup {C6_MarkedBy(last.op)}
          /\ TemplateAfter = TemplateBefore
    /\ (last # NoCall /\ last.op # "resume_recurring_series") =>
          \A p \in last.pre_tasks :
              (p.is_recurring_template /\ p.recurrence_status = "paused") =>
                  {t.id : t \in OccurrencesOf(tasks, p.series_id)} \subseteq
                      {t.id : t \in OccurrencesOf(last.pre_tasks, p.series_id)}
C6_Witness ==
    /\ C6_Precondition
    /\ last.op = "delete_task"
    /\ TemplateBefore.recurrence_status = "paused"
    /\ OpenOccurrences(last.pre_tasks, TargetBefore.series_id) = {TargetBefore}

\* C7: complete_task(completed=true) or skip on an occurrence of an active
\* series for which the engine returns null sets the template's status to
\* ended and inserts nothing.
C7_Precondition(op, isSkip) ==
    /\ CalledOnOccurrence(op, ~isSkip)
    /\ HasTemplateBefore
    /\ TemplateBefore.recurrence_status = "active"
    /\ JSONParses(TemplateBefore.recurrence_rule_data)
    /\ EngineDateBefore(isSkip) = Null
C7_ExhaustionEnds ==
    (C7_Precondition("complete_task", FALSE) \/ C7_Precondition("skip_recurring_task", TRUE)) =>
        /\ TemplateAfter.recurrence_status = "ended"
        /\ last.created = {}
        /\ {t.id : t \in tasks} = {t.id : t \in last.pre_tasks}
C7_Witness ==
    /\ C7_Precondition("skip_recurring_task", TRUE)
    /\ JSONParse(TemplateBefore.recurrence_rule_data).endCondition.type = "onDate"
    /\ ~hasEnded(JSONParse(TemplateBefore.recurrence_rule_data), now)

\* C8: the template's occurrencesGenerated equals the number of occurrence
\* rows ever inserted for its series, the first one included.
C8_CounterCountsInsertions ==
    \A t \in tasks :
        (t.is_recurring_template /\ JSONParses(t.recurrence_rule_data)) =>
            JSONParse(t.recurrence_rule_data).occurrencesGenerated =
                Cardinality(InsertedInto(t.series_id))

(***************************************************************************)
(* SpecEngine: RecurrenceEngine.nextOccurrenceDate applied to rules,       *)
(* anchor dates and reference dates drawn from bounded sets.  A returned   *)
(* date becomes the next anchor with one more occurrence generated, as     *)
(* createNextOccurrence does for a scheduled series.                        *)
(***************************************************************************)
MaxInterval == 3
MaxCount == 3

Intervals == 1..MaxInterval
WeekdaySets == {{}, {2, 4, 6}, {1}, {1, 7}}
DaysOfMonth == {Absent, 1, 15, 29, 31}
OrdinalWeeks == {-1, 1, 2, 3, 4, 5}
OrdinalWeekdays == {1, 2, 6, 7}
MonthsOfYear == {Absent, 2, 12}
AnchorModes == {"scheduledDueDate", "completionDate"}

EngineShapes ==
    {[NoRule EXCEPT !.frequency = "daily", !.interval = i] : i \in Intervals}
    \cup {[NoRule EXCEPT !.frequency = "weekly", !.interval = i, !.weekdays = w] :
             i \in Intervals, w \in WeekdaySets}
    \cup {[NoRule EXCEPT !.frequency = "monthly", !.interval = i,
                         !.monthlyMode = IF d = Absent THEN "" ELSE "dayOfMonth",
                         !.dayOfMonth = d] :
             i \in Intervals, d \in DaysOfMonth}
    \cup {[NoRule EXCEPT !.frequency = "monthly", !.interval = i,
                         !.monthlyMode = "ordinalWeekday",
                         !.ordinalWeek = n, !.ordinalWeekday = w] :
             i \in Intervals, n \in OrdinalWeeks, w \in OrdinalWeekdays}
    \cup {[NoRule EXCEPT !.frequency = "yearly", !.interval = i,
                         !.monthOfYear = m, !.dayOfMonth = d] :
             i \in Intervals, m \in MonthsOfYear, d \in {Absent, 29, 31}}

EngineEndDate == MakeDate(DaysFromCivil(2025, 2, 10), 0)
\* an end date that is also one of the reference dates
EngineEndNoon == MakeDate(DaysFromCivil(2025, 2, 10), NoonTick)
EngineEndConditions ==
    {[type |-> "never", count |-> Absent, date |-> Absent],
     [type |-> "onDate", count |-> Absent, date |-> EngineEndDate],
     [type |-> "onDate", count |-> Absent, date |-> EngineEndNoon]}
    \cup {[type |-> "afterOccurrences", count |-> n, date |-> Absent] : n \in 1..MaxCount}

EngineRules ==
    {[r EXCEPT !.anchor = a, !.endCondition = e, !.occurrencesGenerated = g] :
        r \in EngineShapes, a \in AnchorModes, e \in EngineEndConditions,
        g \in {0, MaxCount + 1}}

EngineAnchorDays ==
    {DaysFromCivil(2025, 1, 31), DaysFromCivil(2024, 2, 29), DaysFromCivil(2025, 2, 3),
     DaysFromCivil(2025, 2, 8), DaysFromCivil(2025, 12, 30)}
EngineAnchorDates == {MakeDate(d, t) : d \in EngineAnchorDays, t \in {0, NoonTick}}
ReferenceOffsets == {-1, 0, 10}

EngineInit ==
    /\ tasks = {} /\ task_tags = {} /\ nextUUID = 1 /\ now = StartTick
    /\ inserted = {} /\ everEnded = {} /\ last = NoCall /\ calls = <<>>
    /\ \E rule \in EngineRules, anchorDate \in EngineAnchorDates, o \in ReferenceOffsets :
          eng = [rule |-> rule, anchorDate |-> anchorDate,
                 referenceDate |-> MakeDate(DayOf(anchorDate) + o, NoonTick),
                 result |-> Null, called |-> FALSE]

\* engine.nextOccurrenceDate(rule, anchorDate, referenceDate)
EngineCall ==
    /\ ~eng.called
    /\ eng' = [eng EXCEPT !.called = TRUE,
                          !.result = nextOccurrenceDate(eng.rule, eng.anchorDate,
                                                        eng.referenceDate)]
    /\ UNCHANGED <<tasks, task_tags, nextUUID, now, inserted, everEnded, last, calls>>

\* the returned date is generated and later becomes the anchor of the next call
EngineGenerate ==
    /\ eng.called
    /\ eng.result # Null
    /\ eng.rule.occurrencesGenerated < MaxCount
    /\ eng' = [eng EXCEPT !.rule.occurrencesGenerated = @ + 1,
                          !.anchorDate = eng.result,
                          !.referenceDate = IF eng.result > @ THEN eng.result ELSE @,
                          !.result = Null, !.called = FALSE]
    /\ UNCHANGED <<tasks, task_tags, nextUUID, now, inserted, everEnded, last, calls>>

EngineNext == EngineCall \/ EngineGenerate

SpecEngine == EngineInit /\ [][EngineNext]_vars

\* C9: a rule whose end condition is never always gets a date from
\* nextOccurrenceDate, whatever its frequency, interval, settings, anchor mode,
\* anchor date and reference date.
C9_NeverNeverNull ==
    (eng.called /\ eng.rule.endCondition.type = "never") => eng.result # Null

C9_Witness ==
    /\ eng.called
    /\ eng.rule.endCondition.type = "never"
    /\ eng.rule.frequency = "monthly"
    /\ eng.rule.anchor = "scheduledDueDate"
    /\ eng.rule.occurrencesGenerated >= 1
    /\ eng.result > eng.anchorDate

\* C10: for an afterOccurrences rule with count N >= 1, nextOccurrenceDate
\* returns null exactly when occurrencesGenerated >= N.
C10_NullIffCountReached ==
    (/\ eng.called
     /\ eng.rule.endCondition.type = "afterOccurrences"
     /\ eng.rule.endCondition.count >= 1)
    => (eng.result = Null <=> eng.rule.occurrencesGenerated >= eng.rule.endCondition.count)

\* count 3: the call made after three generations returns null
C10_Witness ==
    /\ eng.called
    /\ eng.rule.endCondition.type = "afterOccurrences"
    /\ eng.rule.endCondition.count = 3
    /\ eng.rule.occurrencesGenerated = 3
    /\ eng.anchorDate \notin EngineAnchorDates
    /\ eng.result = Null


(***************************************************************************)
(* SpecRace: tool calls whose store calls interleave.  The server awaits   *)
(* every store call, so between two store calls of one handler any store   *)
(* call of another handler can run.  The series was created by             *)
(* create_recurring_task and is active or has been paused.                 *)
(***************************************************************************)
MaxCalls == 2

CreatedStore ==
    execute(EmptyStore,
            Begin("create_recurring_task", 0, FALSE, DailyArgs, EmptyStore)).st
TemplateIDs(st) == {t.id : t \in {r \in st.tasks : r.is_recurring_template}}
PausedStore ==
    execute(CreatedStore,
            Begin("pause_recurring_series", SetMin(TemplateIDs(CreatedStore)), FALSE,
                  NoArgs, CreatedStore)).st

RaceInit ==
    /\ \E st \in {CreatedStore, PausedStore} :
          /\ tasks = st.tasks
          /\ task_tags = st.task_tags
          /\ nextUUID = st.nextUUID
          /\ now = st.now
          /\ inserted = st.inserted
          /\ everEnded = st.everEnded
    /\ last = NoCall
    /\ calls = <<>>
    /\ eng = NoEngine

RaceOps ==
    {"complete_task", "skip_recurring_task", "delete_task",
     "pause_recurring_series", "resume_recurring_series", "end_recurring_series"}

\* a request arrives: its handler starts, no store call made yet; occurrences
\* are completed, skipped and deleted, series are addressed by their template
RaceCall ==
    /\ Len(calls) < MaxCalls
    /\ \E op \in RaceOps, uuid \in UUIDs \ {0}, flag \in BOOLEAN :
          /\ flag => op \in {"complete_task", "delete_task"}
          /\ ~flag => op # "complete_task"
          /\ IF op \in {"complete_task", "skip_recurring_task", "delete_task"}
             THEN uuid \in OccurrenceUUIDs
             ELSE uuid \in TemplateIDs(Store)
          /\ calls' = Append(calls, Begin(op, uuid, flag, NoArgs, Store))
    /\ UNCHANGED <<tasks, task_tags, nextUUID, now, inserted, everEnded, last, eng>>

\* one handler runs up to and including its next store call
RaceStep ==
    \E i \in DOMAIN calls :
        /\ calls[i].pc # "done"
        /\ \E r \in {Step(Store, calls[i])} :
              /\ tasks' = r.st.tasks
              /\ task_tags' = r.st.task_tags
              /\ nextUUID' = r.st.nextUUID
              /\ inserted' = r.st.inserted
              /\ everEnded' = r.st.everEnded
              /\ calls' = [calls EXCEPT ![i] = r.f]
        /\ UNCHANGED <<now, last, eng>>

RaceNext == RaceCall \/ RaceStep

SpecRace == RaceInit /\ [][RaceNext]_vars

\* calls i and j ran on the same series, each found no open occurrence and
\* went on with a date from the engine
BothObservedNoOpen(i, j) ==
    /\ i # j
    /\ calls[i].pc = "done" /\ calls[j].pc = "done"
    /\ calls[i].hasOpen = "false" /\ calls[j].hasOpen = "false"
    /\ calls[i].nextDueDate # Null /\ calls[j].nextDueDate # Null
    /\ calls[i].template.series_id = calls[j].template.series_id

\* no call was made on a row in ids
Untouched(ids) == \A k \in DOMAIN calls : calls[k].uuid \notin ids

\* C2: two interleaved calls on one series that both observed no open
\* occurrence have each inserted an occurrence, and the series has these two
\* open occurrences (as long as no call was made on either of them).
C2_BothInsert ==
    \A i, j \in DOMAIN calls :
        (BothObservedNoOpen(i, j) /\ Untouched(calls[i].created \cup calls[j].created))
        => /\ Cardinality(calls[i].created) = 1
           /\ Cardinality(calls[j].created) = 1
           /\ calls[i].created # calls[j].created
           /\ (calls[i].created \cup calls[j].created) \subseteq
                 {t.id : t \in OpenOccurrences(tasks, calls[i].template.series_id)}

\* two complete_task calls on the same occurrence, both having inserted
C2_Witness ==
    /\ Len(calls) = 2
    /\ BothObservedNoOpen(1, 2)
    /\ calls[1].op = "complete_task" /\ calls[2].op = "complete_task"
    /\ calls[1].uuid = calls[2].uuid
    /\ Cardinality(OpenOccurrences(tasks, calls[1].template.series_id)) = 2


(***************************************************************************)
(* Further properties of the engine, under SpecEngine.                     *)
(***************************************************************************)
\* the candidate nextOccurrenceDate holds before its end-date check
CandidateAfterCatchUp(rule, anchorDate, referenceDate) ==
    IF rule.anchor = "scheduledDueDate" /\ rawCandidate(rule, anchorDate) < referenceDate
    THEN findNextValidDate(rule, referenceDate)
    ELSE rawCandidate(rule, anchorDate)

\* the end-date part of C11 for end date E and candidate c
C11_Returns(E, c) ==
    /\ eng.result # Null => eng.result <= E
    /\ eng.referenceDate > E => eng.result = Null
    /\ (eng.referenceDate <= E /\ c > E) => eng.result = Null
    /\ (eng.referenceDate <= E /\ c <= E) => eng.result = c

\* C11: with end condition onDate E, nextOccurrenceDate never returns a date
\* after E: null when the reference date is after E, null when the candidate
\* (after catch-up) is after E, the candidate otherwise; a reference date
\* equal to E is not ended.
C11_OnDateNeverAfterEnd ==
    (/\ eng.called
     /\ eng.rule.endCondition.type = "onDate"
     /\ eng.rule.endCondition.date # Absent)
    => C11_Returns(eng.rule.endCondition.date,
                   CandidateAfterCatchUp(eng.rule, eng.anchorDate, eng.referenceDate))

\* the reference date is the end date and a date is returned
C11_Witness ==
    /\ eng.called
    /\ eng.rule.endCondition.type = "onDate"
    /\ eng.referenceDate = eng.rule.endCondition.date
    /\ eng.result # Null
    /\ eng.result <= eng.rule.endCondition.date

\* months since year 0 of the month a date lies in
MonthIndex(t) == GetFullYear(t) * 12 + GetMonth(t)

\* number of days of the month with the given index
DaysInMonthAt(index) == GetDate(NewDateYMD(index \div 12, (index % 12) + 1, 0))

\* the date lies in month `index` on day min(day, length of that month)
OnClampedDay(t, index, day) ==
    /\ MonthIndex(t) = index
    /\ GetDate(t) = Min(day, DaysInMonthAt(index))

\* C12: monthly rule in dayOfMonth mode with day D and interval k: the raw
\* candidate lies in the month exactly k months after the anchor's month, on
\* day min(D, days in that month), for every anchor.
C12_MonthlyDayOfMonth ==
    (/\ eng.called
     /\ eng.rule.frequency = "monthly"
     /\ eng.rule.monthlyMode = "dayOfMonth"
     /\ eng.rule.dayOfMonth \in 1..31)
    => OnClampedDay(rawCandidate(eng.rule, eng.anchorDate),
                    MonthIndex(eng.anchorDate) + eng.rule.interval,
                    eng.rule.dayOfMonth)

\* the 1-based weekday of a date, 1 = Sunday
Weekday(t) == GetDay(t) + 1

\* t is the first of the seven days after anchorDate whose weekday is in W
EarliestInWeekdays(t, anchorDate, W) ==
    \E n \in 1..7 :
        /\ t = AddDays(anchorDate, n)
        /\ Weekday(t) \in W
        /\ \A m \in 1..(n - 1) : Weekday(AddDays(anchorDate, m)) \notin W

\* t is on the next member of W later in anchorDate's Sunday-Saturday week,
\* or on the smallest member of W in the following week when there is none
LaterThisWeekOrNextWeek(t, anchorDate, W) ==
    IF \E w \in W : w > Weekday(anchorDate)
    THEN /\ Weekday(t) = SetMin({w \in W : w > Weekday(anchorDate)})
         /\ DayOf(t) - DayOf(anchorDate) = Weekday(t) - Weekday(anchorDate)
    ELSE /\ Weekday(t) = SetMin(W)
         /\ DayOf(t) - DayOf(anchorDate) = 7 - Weekday(anchorDate) + Weekday(t)

\* a call anchored at Monday 2025-02-03 with weekdays {2, 4, 6}, anchor mode
\* scheduledDueDate, no end and a reference date not later than the candidate
C13_MondayCall ==
    /\ eng.called
    /\ eng.rule.frequency = "weekly" /\ eng.rule.interval = 1
    /\ eng.rule.weekdays = {2, 4, 6}
    /\ eng.rule.anchor = "scheduledDueDate"
    /\ eng.rule.endCondition.type = "never"
    /\ eng.anchorDate = MakeDate(DaysFromCivil(2025, 2, 3), NoonTick)
    /\ eng.referenceDate <= rawCandidate(eng.rule, eng.anchorDate)

\* C13: weekly rule with interval 1 and non-empty weekdays W: the raw
\* candidate is the earliest date strictly after the anchor whose weekday is
\* in W (later in the anchor's week if W has such a member, otherwise the
\* smallest member of W in the following week); anchored at Monday 2025-02-03
\* with W = {2, 4, 6} the next occurrence is due Wednesday 2025-02-05.
C13_WeeklyEarliest ==
    /\ (/\ eng.called
        /\ eng.rule.frequency = "weekly" /\ eng.rule.interval = 1
        /\ eng.rule.weekdays # {})
       => /\ EarliestInWeekdays(rawCandidate(eng.rule, eng.anchorDate),
                                eng.anchorDate, eng.rule.weekdays)
          /\ LaterThisWeekOrNextWeek(rawCandidate(eng.rule, eng.anchorDate),
                                     eng.anchorDate, eng.rule.weekdays)
          /\ rawCandidate(eng.rule, eng.anchorDate) > eng.anchorDate
    /\ C13_MondayCall
       => eng.result = MakeDate(DaysFromCivil(2025, 2, 5), NoonTick)

\* the Monday call has returned Wednesday 2025-02-05
C13_Witness ==
    /\ C13_MondayCall
    /\ GetDay(eng.anchorDate) = 1
    /\ eng.result = MakeDate(DaysFromCivil(2025, 2, 5), NoonTick)
    /\ GetDay(eng.result) = 3

\* C13, the completion scenario under Spec: completing the open occurrence
\* due Monday 2025-02-03 of an active weekly series with weekdays {2, 4, 6}
\* and anchor scheduledDueDate inserts one occurrence due 2025-02-05.
C13_ScenarioPrecondition ==
    /\ C5_Precondition
    /\ JSONParse(TemplateBefore.recurrence_rule_data).frequency = "weekly"
    /\ JSONParse(TemplateBefore.recurrence_rule_data).interval = 1
    /\ JSONParse(TemplateBefore.recurrence_rule_data).weekdays = {2, 4, 6}
    /\ JSONParse(TemplateBefore.recurrence_rule_data).anchor = "scheduledDueDate"
    /\ TargetBefore.due_date = MakeDate(DaysFromCivil(2025, 2, 3), NoonTick)
C13_CompletionScenario ==
    C13_ScenarioPrecondition =>
        /\ Cardinality(last.created) = 1
        /\ \A n \in last.created : \A r \in RowsByID(tasks, n) :
              r.due_date = MakeDate(DaysFromCivil(2025, 2, 5), NoonTick)

\* t is the ordinal-th day of the given weekday of its month counted from
\* day 1, or the last one when ordinal is -1
IsOrdinalWeekdayOfMonth(t, ordinal, weekday) ==
    /\ Weekday(t) = weekday
    /\ IF ordinal = -1
       THEN GetDate(t) + 7 > DaysInMonthAt(MonthIndex(t))
       ELSE (GetDate(t) - 1) \div 7 = ordinal - 1

\* C14: monthly rule in ordinalWeekday mode with weekday w, ordinal n in
\* {1, 2, 3, 4, -1} and interval k: the raw candidate lies in the month
\* exactly k months after the anchor's month and is the n-th w of that month
\* (the last one for n = -1), for every anchor.
C14_MonthlyOrdinalWeekday ==
    (/\ eng.called
     /\ eng.rule.frequency = "monthly"
     /\ eng.rule.monthlyMode = "ordinalWeekday"
     /\ eng.rule.ordinalWeek \in {1, 2, 3, 4, -1}
     /\ eng.rule.ordinalWeekday \in 1..7)
    => /\ MonthIndex(rawCandidate(eng.rule, eng.anchorDate)) =
              MonthIndex(eng.anchorDate) + eng.rule.interval
       /\ IsOrdinalWeekdayOfMonth(rawCandidate(eng.rule, eng.anchorDate),
                                  eng.rule.ordinalWeek, eng.rule.ordinalWeekday)

\* C15: yearly rule with interval k: the candidate's year is the anchor's
\* year plus k for every anchor; when monthOfYear m is given its month is m,
\* and when dayOfMonth D is given too its day is min(D, days of month m in
\* that year).
C15_Yearly ==
    (eng.called /\ eng.rule.frequency = "yearly")
    => /\ GetFullYear(rawCandidate(eng.rule, eng.anchorDate)) =
              GetFullYear(eng.anchorDate) + eng.rule.interval
       /\ eng.rule.monthOfYear # Absent =>
              GetMonth(rawCandidate(eng.rule, eng.anchorDate)) + 1 = eng.rule.monthOfYear
       /\ (eng.rule.monthOfYear # Absent /\ eng.rule.dayOfMonth # Absent) =>
              OnClampedDay(rawCandidate(eng.rule, eng.anchorDate),
                           (GetFullYear(eng.anchorDate) + eng.rule.interval) * 12
                               + eng.rule.monthOfYear - 1,
                           eng.rule.dayOfMonth)

\* the first date at or after referenceDate in the sequence c, raw-next(c),
\* raw-next(raw-next(c)), ...
RECURSIVE FirstAtOrAfter(_, _, _)
FirstAtOrAfter(rule, c, referenceDate) ==
    IF c >= referenceDate
    THEN c
    ELSE FirstAtOrAfter(rule, rawCandidate(rule, c), referenceDate)

\* C16: with anchor scheduledDueDate and a first raw candidate c1 strictly
\* before the reference date, nextOccurrenceDate returns, subject to the
\* end-date check, the first date at or after the reference date in the
\* sequence c1, c2 = raw-next(c1), ...; daily with interval 3 anchored at
\* day 0 and referenced at day 10 gives day 12.
C16_CatchUpFromCandidate ==
    (/\ eng.called
     /\ eng.rule.anchor = "scheduledDueDate"
     /\ ~hasEnded(eng.rule, eng.referenceDate)
     /\ rawCandidate(eng.rule, eng.anchorDate) < eng.referenceDate)
    => eng.result =
          nextOccurrenceDate_endDate(eng.rule,
              FirstAtOrAfter(eng.rule, rawCandidate(eng.rule, eng.anchorDate),
                             eng.referenceDate))

(***************************************************************************)
(* Further properties of the tool calls, under Spec.                       *)
(***************************************************************************)
\* the last call was op with this flag on an occurrence whose series has an
\* active template with a rule that parses
OnActiveSeries(op, flag) ==
    /\ CalledOnOccurrence(op, flag)
    /\ HasTemplateBefore
    /\ TemplateBefore.recurrence_status = "active"
    /\ JSONParses(TemplateBefore.recurrence_rule_data)

\* the rule of the target's template before the call
RuleBefore == JSONParse(TemplateBefore.recurrence_rule_data)

\* what the call shows of an engine that was handed anchorDate: on null the
\* series ends, otherwise the occurrence inserted is due on the engine's date
\* and one is inserted when the target was the only open occurrence
EngineWasHanded(anchorDate) ==
    IF nextOccurrenceDate(RuleBefore, anchorDate, now) = Null
    THEN /\ TemplateAfter.recurrence_status = "ended"
         /\ last.created = {}
    ELSE /\ \A n \in last.created : \A r \in RowsByID(tasks, n) :
               r.due_date = nextOccurrenceDate(RuleBefore, anchorDate, now)
         /\ OpenOccurrences(last.pre_tasks, TargetBefore.series_id) = {TargetBefore}
               => last.created # {}

\* C17: the anchor date handed to the engine is, on complete_task, the
\* occurrence's own due date when the rule's anchor is scheduledDueDate and
\* the completion timestamp when it is completionDate; on
\* skip_recurring_task, the skipped occurrence's due date whatever the
\* rule's anchor mode.
C17_AnchorHandedToEngine ==
    /\ OnActiveSeries("complete_task", TRUE) =>
          IF RuleBefore.anchor = "scheduledDueDate"
          THEN EngineWasHanded(TargetBefore.due_date)
          ELSE EngineWasHanded(now)
    /\ OnActiveSeries("skip_recurring_task", FALSE) =>
          EngineWasHanded(TargetBefore.due_date)

\* a skip in a completionDate series at a time for which the two anchors
\* lead to different dates has inserted an occurrence
C17_Witness ==
    /\ OnActiveSeries("skip_recurring_task", FALSE)
    /\ RuleBefore.anchor = "completionDate"
    /\ last.created # {}
    /\ nextOccurrenceDate(RuleBefore, now, now) #
          nextOccurrenceDate(RuleBefore, TargetBefore.due_date, now)

\* the open occurrences the target's series is left with by the call
OpenLeft == OpenOccurrences(last.pre_tasks, TargetBefore.series_id) \ {TargetBefore}

\* the engine's next date computed from the target's due date
DateFromDueDate == nextOccurrenceDate(RuleBefore, TargetBefore.due_date, now)

\* exactly one row was inserted: an occurrence of the target's series due on
\* dueDate
InsertedOneDue(dueDate) ==
    /\ Cardinality(last.created) = 1
    /\ {t.id : t \in tasks} = {t.id : t \in last.pre_tasks} \cup last.created
    /\ \A n \in last.created : \E r \in RowsByID(tasks, n) :
          /\ r.due_date = dueDate
          /\ r.series_id = TargetBefore.series_id
          /\ ~r.is_recurring_template

\* the series of the target is active, is left with no open occurrence and
\* the engine has a next date for it
C18_Generates ==
    /\ OnActiveSeries("delete_task", FALSE)
    /\ OpenLeft = {}
    /\ DateFromDueDate # Null

\* the series of the target is not active, or another open occurrence remains
C18_Blocked ==
    /\ CalledOnOccurrence("delete_task", FALSE)
    /\ HasTemplateBefore
    /\ TemplateBefore.recurrence_status # "active" \/ OpenLeft # {}

\* C18: a non-permanent delete_task on an occurrence marks it deleted; when
\* the series is active and left with no open occurrence (its rule parsing
\* and the engine having a next date) it inserts exactly one occurrence,
\* due on the engine's next date computed from the deleted occurrence's due
\* date; when the series is not active or another open occurrence remains it
\* inserts nothing.  A permanent delete removes the row and its tag links,
\* inserts nothing and leaves the template unchanged.
C18_DeleteOccurrence ==
    /\ CalledOnOccurrence("delete_task", FALSE) =>
          /\ last.result = "success"
          /\ TargetAfter = [TargetBefore EXCEPT !.is_deleted = TRUE]
          /\ last.pre_tasks \ {TargetBefore} \subseteq tasks
    /\ C18_Generates => InsertedOneDue(DateFromDueDate)
    /\ C18_Blocked =>
          /\ last.created = {}
          /\ tasks = (last.pre_tasks \ {TargetBefore})
                         \cup {[TargetBefore EXCEPT !.is_deleted = TRUE]}
    /\ CalledOnOccurrence("delete_task", TRUE) =>
          /\ last.result = "success"
          /\ tasks = last.pre_tasks \ {TargetBefore}
          /\ task_tags = {r \in last.pre_tags : r.task_id # last.uuid}
          /\ last.created = {}
          /\ HasTemplateBefore => TemplateAfter = TemplateBefore

\* a delete in a completionDate series, at a time for which anchoring at
\* the due date and at the time of the call differ, has inserted an occurrence
C18_Witness ==
    /\ C18_Generates
    /\ last.created # {}
    /\ DateFromDueDate # nextOccurrenceDate(RuleBefore, now, now)

\* the last call was resume_recurring_series on a row, template or
\* occurrence, of a series whose template is paused
C19_OnPaused ==
    /\ last.op = "resume_recurring_series"
    /\ RowsByID(last.pre_tasks, last.uuid) # {}
    /\ HasTemplateBefore
    /\ TemplateBefore.recurrence_status = "paused"

\* the paused series has no open occurrence and the engine, anchored and
\* referenced at the resume time, has a next date for it
C19_Generates ==
    /\ C19_OnPaused
    /\ OpenOccurrences(last.pre_tasks, TargetBefore.series_id) = {}
    /\ JSONParses(TemplateBefore.recurrence_rule_data)
    /\ nextOccurrenceDate(RuleBefore, now, now) # Null

C20_Precondition ==
    /\ \/ CalledOnOccurrence("complete_task", TRUE)
       \/ CalledOnOccurrence("skip_recurring_task", FALSE)
       \/ CalledOnOccurrence("delete_task", FALSE)
    /\ HasTemplateBefore
    /\ TemplateBefore.recurrence_rule_data.kind # "null"
    /\ ~JSONParses(TemplateBefore.recurrence_rule_data)

\* C20: when the template's stored rule data cannot be parsed,
\* complete_task, skip_recurring_task and non-permanent delete_task on an
\* occurrence of the series still mark it completed / skipped / deleted and
\* return success, insert no occurrence and leave the template's status and
\* rule data unchanged.
C20_UnparsedRuleNoOp ==
    C20_Precondition =>
        /\ last.result = "success"
        /\ last.created = {}
        /\ tasks = (last.pre_tasks \ {TargetBefore}) \cup {C6_MarkedBy(last.op)}
        /\ TemplateAfter.recurrence_status = TemplateBefore.recurrence_status
        /\ TemplateAfter.recurrence_rule_data = TemplateBefore.recurrence_rule_data

\* the only open occurrence of an active series with unparsed rule data
\* was completed
C20_Witness ==
    /\ C20_Precondition
    /\ last.op = "complete_task"
    /\ TemplateBefore.recurrence_status = "active"
    /\ OpenOccurrences(last.pre_tasks, TargetBefore.series_id) = {TargetBefore}
    /\ TargetAfter.status

(***************************************************************************)
(* SpecFail: tool calls executed one at a time, during which a store call  *)
(* can fail.  SupabaseClient throws when the response is not ok; no        *)
(* handler catches it, so the throw reaches the catch of execute, which    *)
(* returns an error result.  calls keeps the frames of the calls in which  *)
(* a store call threw.                                                     *)
(***************************************************************************)
\* bounds: the store calls of one handler before the one that can fail, and
\* the calls in which a store call fails
MaxStoreCalls == 8
MaxFailures == 1

\* no store call fails
NoFailure == -1

\* mutant: the throw of a store call is swallowed and the call reports success
StoreCallThrows_swallowed(st, f) ==
    [st |-> st, f |-> [f EXCEPT !.pc = "done", !.result = "success"], threw |-> TRUE]

\* the store call the handler is about to make throws: catch (error) returns
\* JSON.stringify({ error: String(error) })
StoreCallThrows(st, f) ==
    [st |-> st, f |-> [f EXCEPT !.pc = "done", !.result = "error"], threw |-> TRUE]

\* execute, the store call after failAt successful ones throwing
RECURSIVE executeFailing(_, _, _)
executeFailingFrom(r, failAt) == executeFailing(r.st, r.f, failAt)
executeFailing(st, f, failAt) ==
    IF f.pc = "done"
    THEN [st |-> st, f |-> f, threw |-> FALSE]
    ELSE IF failAt = 0
    THEN StoreCallThrows(st, f)
    ELSE executeFailingFrom(Step(st, f), failAt - 1)

FailInit ==
    /\ \E st \in {CreatedStore} \cup {StoreWithSeries(d) : d \in StoredRuleData} :
          /\ tasks = st.tasks
          /\ task_tags = st.task_tags
          /\ nextUUID = st.nextUUID
          /\ now = st.now
          /\ inserted = st.inserted
          /\ everEnded = st.everEnded
    /\ last = NoCall
    /\ calls = <<>>
    /\ eng = NoEngine

\* the CallTool request handler runs op(uuid, flag) to completion or to the
\* store call that throws
FailingCall(op, uuid, flag, failAt) ==
    /\ last = NoCall
    /\ \E r \in {executeFailing(Store, Begin(op, uuid, flag, NoArgs, Store), failAt)} :
           /\ r.st.nextUUID <= MaxUUID + 1
           /\ r.threw => Len(calls) < MaxFailures
           /\ tasks' = r.st.tasks
           /\ task_tags' = r.st.task_tags
           /\ nextUUID' = r.st.nextUUID
           /\ inserted' = r.st.inserted
           /\ everEnded' = r.st.everEnded
           /\ calls' = IF r.threw
                       THEN Append(calls, [Begin(op, uuid, flag, NoArgs, Store)
                                             EXCEPT !.pc = "done", !.result = "error"])
                       ELSE calls
           /\ last' = [op |-> op, uuid |-> uuid, flag |-> flag,
                       result |-> r.f.result, created |-> r.f.created,
                       pre_tasks |-> tasks, pre_tags |-> task_tags]
    /\ UNCHANGED <<now, eng>>

FailurePoints == (0..MaxStoreCalls) \cup {NoFailure}

FailingCompleteTask ==
    \E u \in OccurrenceUUIDs, failAt \in FailurePoints :
        FailingCall("complete_task", u, TRUE, failAt)
FailingPauseRecurringSeries ==
    \E u \in UUIDs :
        FailingCall("pause_recurring_series", u, FALSE, NoFailure)
FailingResumeRecurringSeries ==
    \E u \in UUIDs, failAt \in FailurePoints :
        FailingCall("resume_recurring_series", u, FALSE, failAt)

\* the handler returns the result as the response's content; the call,
\* if kept in calls, is over
FailRespond ==
    /\ last # NoCall
    /\ last' = NoCall
    /\ calls' = [k \in DOMAIN calls |-> [calls[k] EXCEPT !.pc = "responded"]]
    /\ UNCHANGED <<tasks, task_tags, nextUUID, now, inserted, everEnded, eng>>

FailNext ==
    \/ FailingCompleteTask
    \/ FailingPauseRecurringSeries
    \/ FailingResumeRecurringSeries
    \/ FailRespond

SpecFail == FailInit /\ [][FailNext]_vars

\* a store call threw in the last call
ThrewInLastCall ==
    /\ last # NoCall
    /\ Len(calls) > 0
    /\ calls[Len(calls)].pc = "done"

\* complete_task(completed=true) on the only open occurrence of an active
\* series failed on a store call after marking it and before inserting
C21_FailedAfterMarking ==
    /\ CalledOnOccurrence("complete_task", TRUE)
    /\ ThrewInLastCall
    /\ HasTemplateBefore
    /\ TemplateBefore.recurrence_status = "active"
    /\ OpenOccurrences(last.pre_tasks, TargetBefore.series_id) = {TargetBefore}
    /\ TargetAfter.status
    /\ last.created = {}

\* an earlier complete_task on an occurrence of the series of the last call's
\* target threw, leaving the occurrence completed
FailedCompletionBefore ==
    \E k \in DOMAIN calls :
        /\ calls[k].pc = "responded"
        /\ calls[k].op = "complete_task"
        /\ \E t \in RowsByID(last.pre_tasks, calls[k].uuid) :
              t.series_id = TargetBefore.series_id /\ t.status

\* resume_recurring_series succeeded on a series with end condition never in
\* which a completion had failed
C21_ResumedAfterFailure ==
    /\ last.op = "resume_recurring_series"
    /\ last.result = "success"
    /\ RowsByID(last.pre_tasks, last.uuid) # {}
    /\ HasTemplateBefore
    /\ JSONParses(TemplateBefore.recurrence_rule_data)
    /\ RuleBefore.endCondition.type = "never"
    /\ FailedCompletionBefore

\* C21: when a store call fails during complete_task after the occurrence
\* was marked completed and before the next one is inserted, the call
\* returns an error result and the series is left active, with no open
\* occurrence and no new row; with end condition never, a later
\* resume_recurring_series that succeeds inserts exactly one open occurrence.
C21_FailureThenResume ==
    /\ C21_FailedAfterMarking =>
          /\ last.result = "error"
          /\ TemplateAfter.recurrence_status = "active"
          /\ OpenOccurrences(tasks, TargetBefore.series_id) = {}
          /\ {t.id : t \in tasks} = {t.id : t \in last.pre_tasks}
    /\ C21_ResumedAfterFailure =>
          /\ Cardinality(OpenOccurrences(tasks, TargetBefore.series_id)) = 1
          /\ OpenOccurrences(last.pre_tasks, TargetBefore.series_id) = {} =>
                InsertedOneDue(nextOccurrenceDate(RuleBefore, now, now))

\* the resume after the failed completion found no open occurrence and
\* inserted one
C21_Witness ==
    /\ C21_ResumedAfterFailure
    /\ OpenOccurrences(last.pre_tasks, TargetBefore.series_id) = {}
    /\ last.created # {}

(***************************************************************************)
(* Further properties of the engine, under SpecEngine (continued).         *)
(***************************************************************************)
\* the day number of the Sunday that starts the week of a date
WeekStart(t) == DayOf(t) - GetDay(t)

\* a weekly call whose candidate is taken from the week interval weeks ahead
C22_JumpsWeeks ==
    /\ eng.called
    /\ eng.rule.frequency = "weekly"
    /\ eng.rule.weekdays # {}
    /\ \/ eng.rule.interval > 1
       \/ /\ eng.rule.interval = 1
          /\ \A w \in eng.rule.weekdays : w <= Weekday(eng.anchorDate)

\* t lies in the Sunday-to-Saturday week of the date weeks weeks after
\* anchorDate, on the smallest weekday of W, at anchorDate's time of day
InWeekOnSmallest(t, anchorDate, weeks, W) ==
    /\ WeekStart(t) = WeekStart(AddDays(anchorDate, 7 * weeks))
    /\ Weekday(t) = SetMin(W)
    /\ TimeOf(t) = TimeOf(anchorDate)

\* C22: weekly rule with non-empty weekdays W and interval k > 1, or
\* interval 1 and no member of W later in the anchor's week: the raw
\* candidate is the date of the week containing anchor + 7k days whose
\* weekday is the smallest member of W, and it is strictly after the anchor.
\* With empty weekdays the candidate is exactly anchor + 7k days.
C22_WeeklyJump ==
    /\ C22_JumpsWeeks =>
          /\ InWeekOnSmallest(rawCandidate(eng.rule, eng.anchorDate), eng.anchorDate,
                              eng.rule.interval, eng.rule.weekdays)
          /\ rawCandidate(eng.rule, eng.anchorDate) > eng.anchorDate
    /\ (eng.called /\ eng.rule.frequency = "weekly" /\ eng.rule.weekdays = {}) =>
          rawCandidate(eng.rule, eng.anchorDate) =
              AddDays(eng.anchorDate, 7 * eng.rule.interval)

\* interval 2 with a member of W later in the anchor's week: the candidate is
\* on another weekday than the anchor, two weeks ahead
C22_Witness ==
    /\ C22_JumpsWeeks
    /\ eng.rule.interval = 2
    /\ \E w \in eng.rule.weekdays : w > Weekday(eng.anchorDate)
    /\ Weekday(rawCandidate(eng.rule, eng.anchorDate)) # Weekday(eng.anchorDate)
    /\ WeekStart(rawCandidate(eng.rule, eng.anchorDate)) = WeekStart(eng.anchorDate) + 14

\* the month the search starts in: that of the anchor moved interval months
ScanMonth(anchorDate, interval) ==
    MonthIndex(SetMonth(anchorDate, GetMonth(anchorDate) + interval))

\* the month with the given index has a day 29, 30 or 31 on the weekday
HasFifth(index, weekday) ==
    \E d \in 29..DaysInMonthAt(index) :
        Weekday(MakeDate(DaysFromCivil(index \div 12, (index % 12) + 1, d), 0)) = weekday

\* t is the fifth day on the weekday counted from day 1 of month index: in
\* that month when it has one, in the following month otherwise
IsFifthCountedFrom(t, index, weekday) ==
    /\ Weekday(t) = weekday
    /\ DayOf(t) - DaysFromCivil(index \div 12, (index % 12) + 1, 1) \in 28..34
    /\ MonthIndex(t) = IF HasFifth(index, weekday) THEN index ELSE index + 1

\* t is a date on the weekday and, when the fifth one was asked for, the
\* fifth counted from day 1 of month index
C23_Found(t, index, ordinal, weekday) ==
    /\ t # Null
    /\ Weekday(t) = weekday
    /\ ordinal = 5 => IsFifthCountedFrom(t, index, weekday)

\* C23: the ordinal-weekday monthly search terminates with a date for every
\* weekday in 1..7 and every ordinalWeek in {-1, 1, 2, 3, 4, 5}; when the
\* requested fifth weekday does not exist in the target month the forward
\* scan leaves that month and the date returned lies in the following month.
C23_OrdinalSearchTerminates ==
    (/\ eng.called
     /\ eng.rule.frequency = "monthly"
     /\ eng.rule.monthlyMode = "ordinalWeekday"
     /\ eng.rule.ordinalWeek \in {-1, 1, 2, 3, 4, 5}
     /\ eng.rule.ordinalWeekday \in 1..7)
    => C23_Found(rawCandidate(eng.rule, eng.anchorDate),
                 ScanMonth(eng.anchorDate, eng.rule.interval),
                 eng.rule.ordinalWeek, eng.rule.ordinalWeekday)

\* a fifth weekday was asked of a month that has four: the date returned
\* lies in the following month
C23_Witness ==
    /\ eng.called
    /\ eng.rule.frequency = "monthly"
    /\ eng.rule.monthlyMode = "ordinalWeekday"
    /\ eng.rule.ordinalWeek = 5
    /\ ~HasFifth(ScanMonth(eng.anchorDate, eng.rule.interval), eng.rule.ordinalWeekday)
    /\ MonthIndex(rawCandidate(eng.rule, eng.anchorDate)) =
          ScanMonth(eng.anchorDate, eng.rule.interval) + 1
    /\ eng.result = rawCandidate(eng.rule, eng.anchorDate)

(***************************************************************************)
(* Further properties of the tool calls, under Spec (continued).           *)
(***************************************************************************)
\* a non-permanent delete_task left an active series without open
\* occurrence and the engine returns null for the deleted one's due date
C24_DeleteExhausted ==
    /\ OnActiveSeries("delete_task", FALSE)
    /\ OpenLeft = {}
    /\ DateFromDueDate = Null

\* resume_recurring_series on a series without open occurrence for which the
\* engine, anchored and referenced at the resume time, returns null
C24_ResumeExhausted ==
    /\ last.op = "resume_recurring_series"
    /\ RowsByID(last.pre_tasks, last.uuid) # {}
    /\ HasTemplateBefore
    /\ JSONParses(TemplateBefore.recurrence_rule_data)
    /\ OpenOccurrences(last.pre_tasks, TargetBefore.series_id) = {}
    /\ nextOccurrenceDate(RuleBefore, now, now) = Null

\* C24: on the non-permanent-delete path and on the resume path, when the
\* engine returns null for the series the template's recurrenceStatus is set
\* to ended, as on the completion path.
C24_ExhaustionEndsOnDeleteAndResume ==
    (C24_DeleteExhausted \/ C24_ResumeExhausted) =>
        TemplateAfter.recurrence_status = "ended"

(***************************************************************************)
(* Further properties of the engine, under SpecEngine (continued).         *)
(***************************************************************************)
\* C25: for every rule with anchor scheduledDueDate and interval >= 1, every
\* non-null date returned by nextOccurrenceDate(rule, anchorDate,
\* referenceDate) is greater than or equal to referenceDate.
C25_ScheduledNotBeforeReference ==
    (/\ eng.called
     /\ eng.rule.anchor = "scheduledDueDate"
     /\ eng.rule.interval >= 1
     /\ eng.result # Null)
    => eng.result >= eng.referenceDate

\* the candidate fell behind the reference date and a later date was returned
C25_Witness ==
    /\ eng.called
    /\ eng.rule.anchor = "scheduledDueDate"
    /\ rawCandidate(eng.rule, eng.anchorDate) < eng.referenceDate
    /\ eng.result # Null
    /\ eng.result >= eng.referenceDate

\* C25, the consequence under Spec: the occurrence inserted on completion in
\* a series anchored on scheduledDueDate is never due before the time of the
\* call.
C25_CompletionNotDueBeforeNow ==
    (C5_Precondition /\ RuleBefore.anchor = "scheduledDueDate") =>
        \A n \in last.created : \A r \in RowsByID(tasks, n) : r.due_date >= now

(***************************************************************************)
(* SpecSeries: one stored series that ends after two occurrences, and the  *)
(* calls that complete, skip, delete, pause and resume, executed one at a  *)
(* time with no interleaving.                                              *)
(***************************************************************************)
\* bound: uuids handed out
MaxSeriesUUID == 5

CountedRuleData ==
    JSONStringify(AppRule([type |-> "afterOccurrences", count |-> 2, date |-> Absent],
                          "scheduledDueDate"))

SeriesInit ==
    /\ \E st \in {StoreWithSeries(CountedRuleData)} :
          /\ tasks = st.tasks
          /\ task_tags = st.task_tags
          /\ nextUUID = st.nextUUID
          /\ now = st.now
          /\ inserted = st.inserted
          /\ everEnded = st.everEnded
    /\ last = NoCall
    /\ calls = <<>>
    /\ eng = NoEngine

\* the CallTool request handler runs the tool call to completion
SeriesCall(op, uuid, flag) ==
    /\ last = NoCall
    /\ \E r \in {execute(Store, Begin(op, uuid, flag, NoArgs, Store))} :
           /\ r.st.nextUUID <= MaxSeriesUUID + 1
           /\ tasks' = r.st.tasks
           /\ task_tags' = r.st.task_tags
           /\ nextUUID' = r.st.nextUUID
           /\ inserted' = r.st.inserted
           /\ everEnded' = r.st.everEnded
           /\ last' = [op |-> op, uuid |-> uuid, flag |-> flag,
                       result |-> r.f.result, created |-> r.f.created,
                       pre_tasks |-> tasks, pre_tags |-> task_tags]
    /\ UNCHANGED <<now, calls, eng>>

SeriesCompleteTask ==
    \E u \in OccurrenceUUIDs : SeriesCall("complete_task", u, TRUE)
SeriesSkipRecurringTask ==
    \E u \in OccurrenceUUIDs : SeriesCall("skip_recurring_task", u, FALSE)
SeriesDeleteTask ==
    \E u \in OccurrenceUUIDs, permanent \in BOOLEAN : SeriesCall("delete_task", u, permanent)
SeriesPauseRecurringSeries ==
    \E u \in UUIDs : SeriesCall("pause_recurring_series", u, FALSE)
SeriesResumeRecurringSeries ==
    \E u \in UUIDs : SeriesCall("resume_recurring_series", u, FALSE)

SeriesNext ==
    \/ SeriesCompleteTask
    \/ SeriesSkipRecurringTask
    \/ SeriesDeleteTask
    \/ SeriesPauseRecurringSeries
    \/ SeriesResumeRecurringSeries
    \/ Respond

SpecSeries == SeriesInit /\ [][SeriesNext]_vars

\* C26: for a series whose rule ends afterOccurrences with count N, under
\* any sequence of non-interleaved completions, skips, deletes, pauses and
\* resumes the number of occurrence rows ever inserted for the series, the
\* first one included, never exceeds N.
C26_InsertedWithinCount ==
    \A t \in {r \in tasks : r.is_recurring_template} :
        (/\ JSONParses(t.recurrence_rule_data)
         /\ JSONParse(t.recurrence_rule_data).endCondition.type = "afterOccurrences")
        => Cardinality(InsertedInto(t.series_id)) <=
               JSONParse(t.recurrence_rule_data).endCondition.count

(***************************************************************************)
(* SpecCompleted: the tool calls of Spec, one at a time, complete_task     *)
(* being called with completed = true only; a series may grow to three     *)
(* occurrences.                                                            *)
(***************************************************************************)
CompletedCall(op, uuid, flag, args) ==
    /\ last = NoCall
    /\ \E r \in {execute(Store, Begin(op, uuid, flag, args, Store))} :
           /\ r.st.nextUUID <= MaxSeriesUUID + 1
           /\ tasks' = r.st.tasks
           /\ task_tags' = r.st.task_tags
           /\ nextUUID' = r.st.nextUUID
           /\ inserted' = r.st.inserted
           /\ everEnded' = r.st.everEnded
           /\ last' = [op |-> op, uuid |-> uuid, flag |-> flag,
                       result |-> r.f.result, created |-> r.f.created,
                       pre_tasks |-> tasks, pre_tags |-> task_tags]
    /\ UNCHANGED <<now, calls, eng>>

CompletedCreateRecurringTask ==
    \E args \in CreateArgs :
        CompletedCall("create_recurring_task", 0, FALSE, args)
CompleteTaskAsCompleted ==
    \E u \in OccurrenceUUIDs :
        CompletedCall("complete_task", u, TRUE, NoArgs)
CompletedSkipRecurringTask ==
    \E u \in OccurrenceUUIDs :
        CompletedCall("skip_recurring_task", u, FALSE, NoArgs)
CompletedDeleteTask ==
    \E u \in OccurrenceUUIDs, permanent \in BOOLEAN :
        CompletedCall("delete_task", u, permanent, NoArgs)
CompletedPauseRecurringSeries ==
    \E u \in UUIDs :
        CompletedCall("pause_recurring_series", u, FALSE, NoArgs)
CompletedResumeRecurringSeries ==
    \E u \in UUIDs :
        CompletedCall("resume_recurring_series", u, FALSE, NoArgs)
CompletedEndRecurringSeries ==
    \E u \in UUIDs :
        CompletedCall("end_recurring_series", u, FALSE, NoArgs)

CompletedNext ==
    \/ CompletedCreateRecurringTask
    \/ CompleteTaskAsCompleted
    \/ CompletedSkipRecurringTask
    \/ CompletedDeleteTask
    \/ CompletedPauseRecurringSeries
    \/ CompletedResumeRecurringSeries
    \/ CompletedEndRecurringSeries
    \/ Respond

SpecCompleted == Init /\ [][CompletedNext]_vars

InsertedByGeneratingCall(n) ==
    /\ n \in inserted' \ inserted
    /\ Len(calls') = Len(calls)
    /\ \E i \in DOMAIN calls :
          /\ calls'[i] # calls[i]
          /\ calls[i].op \in {"complete_task", "skip_recurring_task", "delete_task"}

\* the series of the row has a template, stored as active
StoredActive(rows, seriesID) ==
    /\ TemplatesOf(rows, seriesID) # {}
    /\ \A t \in TemplatesOf(rows, seriesID) : t.recurrence_status = "active"

\* C28: at the moment complete_task, skip_recurring_task or delete_task
\* inserts an occurrence row, the recurrenceStatus stored on the template of
\* its series is active, also when the store calls of a pause or an end of
\* the same series interleave with those of the inserting call.
C28_ActiveAtInsertion ==
    [][\A n \in inserted' \ inserted :
          InsertedByGeneratingCall(n) => StoredActive(tasks, n.series_id)]_vars

(***************************************************************************)
(* C29: the raw candidate against the anchor date, under SpecEngine, and   *)
(* the due dates of a scheduled series, under Spec.                        *)
(***************************************************************************)
\* the rule is one of: daily, weekly with or without weekdays, monthly by day
\* or by ordinal weekday with ordinalWeek in {-1, 1, 2, 3, 4}, yearly; with an
\* interval of at least 1
C29_Rule ==
    /\ eng.rule.frequency \in {"daily", "weekly", "monthly", "yearly"}
    /\ eng.rule.interval >= 1
    /\ eng.rule.monthlyMode = "ordinalWeekday" => eng.rule.ordinalWeek \in {-1, 1, 2, 3, 4}

\* candidate is a date (Null is below every date) later than the anchor date,
\* and so is the date returned to a series anchored on scheduledDueDate
C29_Later(candidate) ==
    /\ candidate > eng.anchorDate
    /\ (eng.called /\ eng.result # Null /\ eng.rule.anchor = "scheduledDueDate")
          => eng.result > eng.anchorDate

\* C29: for every frequency and every interval of at least 1 the raw
\* candidate is strictly later than the anchor date; consequently the date
\* returned for a series anchored on scheduledDueDate, the due date of the
\* occurrence created, is strictly later than the due date it was computed
\* from.
C29_CandidateAfterAnchor ==
    C29_Rule => C29_Later(rawCandidate(eng.rule, eng.anchorDate))

\* a last-Monday rule called on the first Monday of February returned its raw
\* candidate, the last Monday of March
C29_Witness ==
    /\ eng.called
    /\ eng.rule.anchor = "scheduledDueDate"
    /\ eng.rule.monthlyMode = "ordinalWeekday"
    /\ eng.rule.ordinalWeek = -1
    /\ eng.rule.ordinalWeekday = 2
    /\ eng.rule.interval = 1
    /\ eng.anchorDate = MakeDate(DaysFromCivil(2025, 2, 3), NoonTick)
    /\ eng.result = MakeDate(DaysFromCivil(2025, 3, 31), 0)

\* C29, the consequence under Spec: the occurrence a completion or a skip
\* inserts in a series anchored on scheduledDueDate is due strictly later than
\* the occurrence that was completed or skipped.
C29_CreatedDueLater ==
    (/\ OnActiveSeries("complete_task", TRUE) \/ OnActiveSeries("skip_recurring_task", FALSE)
     /\ RuleBefore.anchor = "scheduledDueDate"
     /\ TargetBefore.due_date # Null)
    => \A n \in last.created : \A r \in RowsByID(tasks, n) :
          r.due_date > TargetBefore.due_date

(***************************************************************************)
(* C30: resume_recurring_series returning an error result.                 *)
(***************************************************************************)
\* no template's recurrenceStatus differs from what it was before the call
StatusAsBefore ==
    \A p \in last.pre_tasks : \A t \in RowsByID(tasks, p.id) :
        p.is_recurring_template => t.recurrence_status = p.recurrence_status

\* C30: whenever resume_recurring_series returns an error result, the
\* template's recurrenceStatus is the same as before the call and no
\* occurrence has been inserted.
C30_ResumeErrorChangesNothing ==
    (last.op = "resume_recurring_series" /\ last.result = "error")
    => /\ StatusAsBefore
       /\ last.created = {}
       /\ {t.id : t \in tasks} = {t.id : t \in last.pre_tasks}

=============================================================================
